---------------------------- MODULE Spec2Model ----------------------------
(***************************************************************************)
(* The conversation memory of the voice coach: the session registry of     *)
(* ConversationStateManager, the turn update (update_memory) with its      *)
(* decay pass, blend, extractors and phase check, the exercise log, and    *)
(* the memory events each call schedules.                                  *)
(*                                                                         *)
(* Text is a sequence of one-character strings, so that lower(), find(),   *)
(* slicing and the `in` substring test are computed as Python computes     *)
(* them.  A dict is a sequence of [k, v] entries in insertion order.       *)
(* A float is a decimal with FracLimbs * 6 fractional digits, held as a    *)
(* tuple of limbs (integer part first); products by the decimal factors of *)
(* the source are exact as long as no digit falls off the last limb, which *)
(* PrecisionKept states.  Wall-clock timestamps are left out.              *)
(***************************************************************************)
EXTENDS Integers, Sequences, FiniteSets, TLC

\* ------------------------------------------------------------------ bounds
\* Turn updates of one memory in Spec (every operation, one emotion).
MaxTurns == 3
\* Turn updates of one memory in SpecLedger (several emotions and intensities).
MaxLedgerTurns == 3
\* Turn updates of one memory in SpecPhase (every trigger phrase).
MaxPhaseTurns == 9
\* Turn updates of one memory in SpecFade (a topic fades after ten decays).
MaxFadeTurns == 12
\* The turns at the start of SpecFade in which the user may be calm.
CalmTurns == 2
\* Exercise logs of one memory.
MaxExercises == 1
\* Largest turn number a caller sets with set_current_turn.
MaxTurnNumber == 2
\* Six-digit limbs after the decimal point of a weight.
FracLimbs == 4

\* ------------------------------------------------------------- decimals
Base == 10^6
NumLen == FracLimbs + 1

\* n / den as a decimal, den a divisor of Base.
Frac(n, den) == [i \in 1..NumLen |->
                   IF i = 1 THEN n \div den
                   ELSE IF i = 2 THEN (n % den) * (Base \div den)
                   ELSE 0]

RECURSIVE MulFrom(_, _, _, _, _)
\* Limbs 1..i of w * k + carry, followed by the limbs acc already computed.
MulFrom(w, k, i, carry, acc) ==
  LET v == w[i] * k + carry
  IN  IF i = 1 THEN <<v>> \o acc
      ELSE MulFrom(w, k, i - 1, v \div Base, <<v % Base>> \o acc)

\* w * k, k a small natural
NumMul(w, k) == MulFrom(w, k, NumLen, 0, << >>)

RECURSIVE DivFrom(_, _, _, _, _)
\* acc followed by the limbs i..NumLen of (rem, w[i..]) divided by d.
DivFrom(w, d, i, rem, acc) ==
  LET v == rem * Base + w[i]
  IN  IF i = NumLen THEN Append(acc, v \div d)
      ELSE DivFrom(w, d, i + 1, v % d, Append(acc, v \div d))

\* w / d, d a small natural; digits beyond the last limb are dropped
NumDiv(w, d) == DivFrom(w, d, 1, 0, << >>)

RECURSIVE AddFrom(_, _, _, _, _)
AddFrom(a, b, i, carry, acc) ==
  LET v == a[i] + b[i] + carry
  IN  IF i = 1 THEN <<v>> \o acc
      ELSE AddFrom(a, b, i - 1, v \div Base, <<v % Base>> \o acc)

\* a + b
NumAdd(a, b) == AddFrom(a, b, NumLen, 0, << >>)

RECURSIVE LessFrom(_, _, _)
LessFrom(a, b, i) == IF i > NumLen THEN FALSE
                     ELSE IF a[i] # b[i] THEN a[i] < b[i]
                     ELSE LessFrom(a, b, i + 1)

\* a < b
Less(a, b) == LessFrom(a, b, 1)
\* a <= b
Leq(a, b) == ~Less(b, a)
\* Python's max(a, b): the first argument unless the second is greater.
NumMax(a, b) == IF Less(a, b) THEN b ELSE a
\* w * f for a decimal factor f = <<numerator, denominator>>.
Times(w, f) == NumDiv(NumMul(w, f[1]), f[2])

Zero == Frac(0, 1)
One == Frac(1, 1)

\* ------------------------------------------------------------------ text
UpperToLower ==
  ("A" :> "a") @@ ("B" :> "b") @@ ("C" :> "c") @@ ("D" :> "d") @@ ("E" :> "e") @@
  ("F" :> "f") @@ ("G" :> "g") @@ ("H" :> "h") @@ ("I" :> "i") @@ ("J" :> "j") @@
  ("K" :> "k") @@ ("L" :> "l") @@ ("M" :> "m") @@ ("N" :> "n") @@ ("O" :> "o") @@
  ("P" :> "p") @@ ("Q" :> "q") @@ ("R" :> "r") @@ ("S" :> "s") @@ ("T" :> "t") @@
  ("U" :> "u") @@ ("V" :> "v") @@ ("W" :> "w") @@ ("X" :> "x") @@ ("Y" :> "y") @@
  ("Z" :> "z")

\* str.lower()
Lower(s) == [i \in 1..Len(s) |->
               IF s[i] \in DOMAIN UpperToLower THEN UpperToLower[s[i]] ELSE s[i]]

\* needle occurs in hay at the 0-based offset i
OccursAt(needle, hay, i) ==
  /\ i + Len(needle) <= Len(hay)
  /\ \A j \in 1..Len(needle) : hay[i + j] = needle[j]

\* `needle in hay`
In(needle, hay) == \E i \in 0..Len(hay) : OccursAt(needle, hay, i)

\* any(x in hay for x in needles), needles a sequence of texts
AnyIn(needles, hay) == \E n \in 1..Len(needles) : In(needles[n], hay)

\* hay.find(needle): the 0-based offset of the first occurrence, or -1
Find(needle, hay) ==
  IF In(needle, hay)
  THEN CHOOSE i \in 0..Len(hay) :
         /\ OccursAt(needle, hay, i)
         /\ \A j \in 0..(i - 1) : ~OccursAt(needle, hay, j)
  ELSE -1

\* hay.rfind(needle, 0, end): the last occurrence that ends at or before end
RFind(needle, hay, end) ==
  LET hits == {i \in 0..Len(hay) : OccursAt(needle, hay, i) /\ i + Len(needle) <= end}
  IN  IF hits = {} THEN -1 ELSE CHOOSE i \in hits : \A j \in hits : j <= i

Min2(a, b) == IF a < b THEN a ELSE b
Max2(a, b) == IF a < b THEN b ELSE a

\* s[lo:hi] for 0 <= lo, hi
Slice(s, lo, hi) == SubSeq(s, lo + 1, Min2(hi, Len(s)))

RECURSIVE LStrip(_)
LStrip(s) == IF s # << >> /\ Head(s) = " " THEN LStrip(Tail(s)) ELSE s
RECURSIVE RStrip(_)
RStrip(s) == IF s # << >> /\ s[Len(s)] = " " THEN RStrip(SubSeq(s, 1, Len(s) - 1)) ELSE s
\* str.strip()
Strip(s) == RStrip(LStrip(s))

RECURSIVE Split(_)
\* str.split(): the words between runs of blanks
Split(s) ==
  LET t == LStrip(s)
  IN  IF t = << >> THEN << >>
      ELSE LET n == IF In(<<" ">>, t) THEN Find(<<" ">>, t) ELSE Len(t)
           IN  <<SubSeq(t, 1, n)>> \o Split(SubSeq(t, n + 1, Len(t)))

RECURSIVE Join(_)
\* " ".join(words)
Join(words) == IF words = << >> THEN << >>
               ELSE IF Len(words) = 1 THEN words[1]
               ELSE words[1] \o <<" ">> \o Join(Tail(words))

\* seq[:n]
Take(s, n) == SubSeq(s, 1, Min2(n, Len(s)))
\* seq[-n:]
LastN(s, n) == SubSeq(s, Max2(1, Len(s) - n + 1), Len(s))

\* ------------------------------------------------------------- dicts
DictKeys(d) == {d[i].k : i \in 1..Len(d)}
DictGet(d, key, default) ==
  IF key \in DictKeys(d) THEN d[CHOOSE i \in 1..Len(d) : d[i].k = key].v ELSE default
\* d[key] = val: in place for a key already there, appended for a new one
DictSet(d, key, val) ==
  IF key \in DictKeys(d)
  THEN [i \in 1..Len(d) |-> IF d[i].k = key THEN [k |-> key, v |-> val] ELSE d[i]]
  ELSE Append(d, [k |-> key, v |-> val])
\* del d[key]
DictDel(d, key) == SelectSeq(d, LAMBDA e : e.k # key)
\* list(d.keys())
KeyList(d) == [i \in 1..Len(d) |-> d[i].k]

\* ------------------------------------------------------ program constants
\* ConversationPhase, in declaration order.
ConversationPhase ==
  <<"opening", "exploration", "deepening", "technique", "integration", "closing">>
Phases == {ConversationPhase[i] : i \in 1..Len(ConversationPhase)}

EMOTION_DECAY_FACTOR == <<7, 10>>
\* A topic factor of 0.9.
TOPIC_DECAY_FACTOR_slower == <<90, 100>>
TOPIC_DECAY_FACTOR == <<85, 100>>
MIN_RELEVANCE_THRESHOLD == Frac(2, 10)

PHASE_TRANSITION_SIGNALS ==
  [opening |->
     [next |-> "exploration", min_exchanges |-> 1,
      signals |-> <<<<"f","e","e","l">>, <<"b","e","e","n"," ","f","e","e","l","i","n","g">>, <<"s","t","r","u","g","g","l","i","n","g">>, <<"h","e","l","p">>,
                    <<"w","a","n","t"," ","t","o"," ","t","a","l","k"," ","a","b","o","u","t">>, <<"g","o","i","n","g"," ","t","h","r","o","u","g","h">>>>],
   exploration |->
     [next |-> "deepening", min_exchanges |-> 2,
      signals |-> <<<<"b","e","c","a","u","s","e">>, <<"t","h","i","n","k"," ","i","t","'","s">>, <<"s","t","a","r","t","e","d"," ","w","h","e","n">>, <<"a","l","w","a","y","s">>,
                    <<"n","e","v","e","r">>, <<"r","e","m","i","n","d","s"," ","m","e">>>>],
   deepening |->
     [next |-> "technique", min_exchanges |-> 2,
      signals |-> <<<<"w","h","a","t"," ","s","h","o","u","l","d"," ","I">>, <<"h","o","w"," ","c","a","n"," ","I">>, <<"w","a","n","t"," ","t","o"," ","c","h","a","n","g","e">>,
                    <<"n","e","e","d"," ","h","e","l","p">>, <<"w","h","a","t"," ","d","o"," ","y","o","u"," ","t","h","i","n","k">>>>],
   technique |->
     [next |-> "integration", min_exchanges |-> 2,
      signals |-> <<<<"t","h","a","t"," ","h","e","l","p","s">>, <<"I"," ","s","e","e">>, <<"m","a","k","e","s"," ","s","e","n","s","e">>,
                    <<"n","e","v","e","r"," ","t","h","o","u","g","h","t"," ","o","f"," ","i","t">>, <<"f","e","e","l"," ","b","e","t","t","e","r">>>>],
   integration |->
     [next |-> "closing", min_exchanges |-> 1,
      signals |-> <<<<"t","h","a","n","k"," ","y","o","u">>, <<"h","e","l","p","f","u","l">>, <<"g","o","i","n","g"," ","t","o"," ","t","r","y">>, <<"f","e","e","l"," ","b","e","t","t","e","r">>,
                    <<"a","p","p","r","e","c","i","a","t","e">>>>]]

TOPIC_KEYWORDS ==
  << [topic |-> "work", keywords |->
        <<<<"w","o","r","k">>, <<"j","o","b">>, <<"b","o","s","s">>, <<"c","o","l","l","e","a","g","u","e">>, <<"d","e","a","d","l","i","n","e">>, <<"m","e","e","t","i","n","g">>,
          <<"c","a","r","e","e","r">>, <<"o","f","f","i","c","e">>>>],
     [topic |-> "relationships", keywords |->
        <<<<"p","a","r","t","n","e","r">>, <<"f","r","i","e","n","d">>, <<"f","a","m","i","l","y">>, <<"m","o","t","h","e","r">>, <<"f","a","t","h","e","r">>,
          <<"r","e","l","a","t","i","o","n","s","h","i","p">>, <<"d","a","t","i","n","g">>, <<"m","a","r","r","i","a","g","e">>>>],
     [topic |-> "health", keywords |->
        <<<<"h","e","a","l","t","h">>, <<"s","l","e","e","p">>, <<"t","i","r","e","d">>, <<"s","i","c","k">>, <<"p","a","i","n">>, <<"b","o","d","y">>, <<"e","a","t","i","n","g">>>>],
     [topic |-> "anxiety", keywords |->
        <<<<"a","n","x","i","o","u","s">>, <<"w","o","r","r","i","e","d">>, <<"n","e","r","v","o","u","s">>, <<"p","a","n","i","c">>, <<"f","e","a","r">>, <<"s","c","a","r","e","d">>,
          <<"s","t","r","e","s","s">>>>],
     [topic |-> "sadness", keywords |->
        <<<<"s","a","d">>, <<"d","e","p","r","e","s","s","e","d">>, <<"h","o","p","e","l","e","s","s">>, <<"c","r","y","i","n","g">>, <<"l","o","n","e","l","y">>, <<"e","m","p","t","y">>,
          <<"g","r","i","e","f">>>>],
     [topic |-> "anger", keywords |->
        <<<<"a","n","g","r","y">>, <<"f","r","u","s","t","r","a","t","e","d">>, <<"a","n","n","o","y","e","d">>, <<"m","a","d">>, <<"f","u","r","i","o","u","s">>, <<"r","e","s","e","n","t","f","u","l">>>>],
     [topic |-> "self_worth", keywords |->
        <<<<"w","o","r","t","h","l","e","s","s">>, <<"f","a","i","l","u","r","e">>, <<"n","o","t"," ","g","o","o","d"," ","e","n","o","u","g","h">>, <<"h","a","t","e"," ","m","y","s","e","l","f">>,
          <<"s","t","u","p","i","d">>, <<"u","s","e","l","e","s","s">>>>],
     [topic |-> "future", keywords |->
        <<<<"f","u","t","u","r","e">>, <<"t","o","m","o","r","r","o","w">>, <<"n","e","x","t"," ","w","e","e","k">>, <<"g","o","a","l","s">>, <<"p","l","a","n","s">>, <<"d","r","e","a","m">>>>] >>

causal_patterns ==
  <<<<"b","e","c","a","u","s","e">>, <<"s","i","n","c","e">>, <<"w","h","e","n">>, <<"a","f","t","e","r">>, <<"b","e","f","o","r","e">>, <<"m","a","k","e","s"," ","m","e">>>>
belief_patterns ==
  <<<<"i"," ","t","h","i","n","k">>, <<"i"," ","f","e","e","l"," ","l","i","k","e">>, <<"i"," ","b","e","l","i","e","v","e">>, <<"i"," ","a","l","w","a","y","s">>, <<"i"," ","n","e","v","e","r">>>>

breakthrough_positive_emotions ==
  <<"relief", "calm", "gratitude", "hopeful", "curious", "peaceful", "content">>
breakthrough_signals ==
  <<<<"i"," ","r","e","a","l","i","z","e">>, <<"i"," ","n","e","v","e","r"," ","t","h","o","u","g","h","t">>, <<"t","h","a","t"," ","m","a","k","e","s"," ","s","e","n","s","e">>, <<"i"," ","s","e","e"," ","n","o","w">>,
    <<"i"," ","u","n","d","e","r","s","t","a","n","d">>, <<"a","h","a">>, <<"o","h"," ","w","o","w">>, <<"y","o","u","'","r","e"," ","r","i","g","h","t">>, <<"i"," ","d","i","d","n","'","t"," ","t","h","i","n","k"," ","o","f"," ","i","t">>,
    <<"t","h","a","t","'","s"," ","t","r","u","e">>, <<"t","h","a","t"," ","h","e","l","p","s">>, <<"i"," ","f","e","e","l"," ","b","e","t","t","e","r">>, <<"t","h","i","s"," ","i","s"," ","h","e","l","p","i","n","g">>>>

positive_emotions ==
  {"relief", "calm", "gratitude", "hopeful", "peaceful", "content", "curious"}
negative_emotions ==
  {"anxiety", "sadness", "frustration", "anger", "fear", "overwhelmed", "stressed"}

question_stop_words ==
  {<<"w","h","a","t">>, <<"t","h","a","t">>, <<"t","h","i","s">>, <<"y","o","u","r">>, <<"w","i","t","h">>, <<"a","b","o","u","t">>, <<"h","a","v","e">>, <<"d","o","e","s">>}

\* ------------------------------------------------------------- the state
VARIABLES
  sessions,               \* ConversationStateManager.sessions: session id -> memory
  current_turn_number,    \* the module global _current_turn_number
  emitted,                \* the emit_memory_event_sync calls of the latest operation, in order
  call,                   \* the latest operation and its arguments
  current_session_id,     \* the module global _current_session_id
  handlers,               \* websocket_endpoint: connection -> the coroutine's position and locals
  pending,                \* the emit_memory_event tasks created and not yet run, oldest first
  published,              \* the events built by the tasks this step ran
  active_connections,     \* ConnectionManager.active_connections: session id -> websocket
  admin                   \* admin.py: _recent_events, _admin_connections, the broadcast tasks

handler_vars == <<current_session_id, handlers, pending>>
vars == <<sessions, current_turn_number, emitted, call, current_session_id, handlers, pending, published,
         active_connections, admin>>

\* ConversationMemory(): the dataclass defaults.
ConversationMemory ==
  [phase |-> "opening",
   exchanges_in_phase |-> 0,
   user_topics |-> << >>,
   topic_weights |-> << >>,
   emotion_journey |-> << >>,
   emotion_weights |-> << >>,
   key_insights |-> << >>,
   techniques_used |-> << >>,
   used_response_patterns |-> {},
   questions_asked |-> {},
   user_goals |-> << >>,
   breakthroughs |-> << >>,
   total_exchanges |-> 0,
   exercises_completed |-> << >>,
   pending_clarification |-> "None"]

\* get_or_create_memory handing out a new memory at every call.
MemoryOfFresh(reg, session_id) == ConversationMemory

\* The memory get_or_create_memory returns for session_id in registry reg.
MemoryOf(reg, session_id) ==
  IF session_id \in DOMAIN reg THEN reg[session_id] ELSE ConversationMemory

\* get_dominant_emotion keeping the last of several greatest entries.
get_dominant_emotion_last(memory) ==
  LET d == memory.emotion_weights
  IN  IF d = << >> THEN [emotion |-> "neutral", weight |-> Frac(5, 10)]
      ELSE LET i == CHOOSE i \in 1..Len(d) :
                      /\ \A j \in 1..Len(d) : Leq(d[j].v, d[i].v)
                      /\ \A j \in (i + 1)..Len(d) : Less(d[j].v, d[i].v)
           IN  [emotion |-> d[i].k, weight |-> d[i].v]

\* get_dominant_emotion: max() keeps the first of several greatest entries.
get_dominant_emotion(memory) ==
  LET d == memory.emotion_weights
  IN  IF d = << >> THEN [emotion |-> "neutral", weight |-> Frac(5, 10)]
      ELSE LET i == CHOOSE i \in 1..Len(d) :
                      /\ \A j \in 1..Len(d) : Leq(d[j].v, d[i].v)
                      /\ \A j \in 1..(i - 1) : Less(d[j].v, d[i].v)
           IN  [emotion |-> d[i].k, weight |-> d[i].v]

\* None, for an optional text.
NoText == [form |-> "None"]

\* One emit_memory_event_sync call.
Event(event_type, data, session_id) ==
  [event_type |-> event_type, data |-> data, session_id |-> session_id]

\* ------------------------------------------------------------ extractors
\* _extract_topics: the categories with a keyword in the lower-cased message.
extract_topics(message) ==
  LET message_lower == Lower(message)
      found == SelectSeq(TOPIC_KEYWORDS, LAMBDA t : AnyIn(t.keywords, message_lower))
  IN  [i \in 1..Len(found) |-> found[i].topic]

\* The first pattern of patterns that occurs in text, or 0.
FirstPattern(patterns, text) ==
  IF AnyIn(patterns, text)
  THEN CHOOSE n \in 1..Len(patterns) :
         /\ In(patterns[n], text)
         /\ \A j \in 1..(n - 1) : ~In(patterns[j], text)
  ELSE 0

\* _extract_insight: "User feels {emotion} {snippet}..." for the first causal
\* pattern, else "Core belief: '{snippet}'" for the first belief pattern, else None.
extract_insight(message, emotion) ==
  LET message_lower == Lower(message)
      c == FirstPattern(causal_patterns, message_lower)
      b == FirstPattern(belief_patterns, message_lower)
  IN  IF c # 0
      THEN LET idx == Find(causal_patterns[c], message_lower)
           IN  [form |-> "User feels", emotion |-> emotion,
                text |-> Strip(Slice(message, Max2(0, idx - 20),
                                     Min2(Len(message), idx + 50)))]
      ELSE IF b # 0
      THEN LET idx == Find(belief_patterns[b], message_lower)
           IN  [form |-> "Core belief",
                text |-> Strip(Slice(message, idx, Min2(Len(message), idx + 60)))]
      ELSE NoText

\* _get_response_pattern: the first five words, lower-cased.
get_response_pattern(response) == Lower(Join(Take(Split(response), 5)))

\* _extract_question_theme
extract_question_theme(response) ==
  IF In(<<"?">>, response)
  THEN LET q_idx == RFind(<<"?">>, response, Len(response))
           start_idx == Max2(Max2(RFind(<<".">>, response, q_idx),
                                  RFind(<<"!">>, response, q_idx)), 0)
           question == Strip(Slice(response, start_idx, q_idx + 1))
           key_words == SelectSeq(Split(Lower(question)),
                                  LAMBDA w : Len(w) > 3 /\ w \notin question_stop_words)
       IN  Join(Take(key_words, 3))
  ELSE << >>

\* _detect_breakthrough without the test of the emotion.
detect_breakthrough_any_emotion(message, emotion) ==
  IF AnyIn(breakthrough_signals, Lower(message))
  THEN [form |-> "User had insight", text |-> Take(message, 60)]
  ELSE NoText

\* _detect_breakthrough: "User had insight: '{message[:60]}...'" or None.
detect_breakthrough(message, emotion) ==
  IF \A i \in 1..Len(breakthrough_positive_emotions) :
       breakthrough_positive_emotions[i] # emotion
  THEN NoText
  ELSE IF AnyIn(breakthrough_signals, Lower(message))
  THEN [form |-> "User had insight", text |-> Take(message, 60)]
  ELSE NoText

\* _detect_emotional_conflict comparing with the current journal entry
\* instead of the one before it, and flagging any lingering negative weight.
detect_emotional_conflict_current_entry(memory, current_emotion, session_id) ==
  IF Len(memory.emotion_journey) < 2 THEN << >>
  ELSE
    LET last_entry == memory.emotion_journey[Len(memory.emotion_journey)]
        high_negatives ==
          SelectSeq(memory.emotion_weights, LAMBDA e : e.k \in negative_emotions)
    IN  (IF /\ current_emotion \in positive_emotions
            /\ last_entry.emotion \in negative_emotions
            /\ Less(Frac(6, 10), last_entry.intensity)
         THEN <<Event("memory.conflict.detected",
                      [conflict_type |-> "sudden_polarity_shift",
                       from_emotion |-> last_entry.emotion,
                       from_intensity |-> last_entry.intensity,
                       to_emotion |-> current_emotion,
                       exchanges_apart |-> 1], session_id)>>
         ELSE << >>)
        \o
        (IF current_emotion = "gratitude" /\ high_negatives # << >>
         THEN <<Event("memory.conflict.detected",
                      [conflict_type |-> "mixed_resolution",
                       gratitude_expressed |-> TRUE,
                       lingering_negatives |-> high_negatives], session_id)>>
         ELSE << >>)

\* _detect_emotional_conflict: the conflict events of this turn.
detect_emotional_conflict(memory, current_emotion, session_id) ==
  IF Len(memory.emotion_journey) < 2 THEN << >>
  ELSE
    LET last_entry == memory.emotion_journey[Len(memory.emotion_journey) - 1]
        high_negatives ==
          SelectSeq(memory.emotion_weights,
                    LAMBDA e : e.k \in negative_emotions /\ Less(Frac(4, 10), e.v))
    IN  (IF /\ current_emotion \in positive_emotions
            /\ last_entry.emotion \in negative_emotions
            /\ Less(Frac(6, 10), last_entry.intensity)
         THEN <<Event("memory.conflict.detected",
                      [conflict_type |-> "sudden_polarity_shift",
                       from_emotion |-> last_entry.emotion,
                       from_intensity |-> last_entry.intensity,
                       to_emotion |-> current_emotion,
                       exchanges_apart |-> 1], session_id)>>
         ELSE << >>)
        \o
        (IF current_emotion = "gratitude" /\ high_negatives # << >>
         THEN <<Event("memory.conflict.detected",
                      [conflict_type |-> "mixed_resolution",
                       gratitude_expressed |-> TRUE,
                       lingering_negatives |-> high_negatives], session_id)>>
         ELSE << >>)

\* ----------------------------------------------------- the phase machine
\* any(signal in message_lower for signal in signals), for the signals of phase
has_transition_signal(phase, user_message) ==
  AnyIn(PHASE_TRANSITION_SIGNALS[phase].signals, Lower(user_message))

\* ------------------------------------------------- the websocket handlers
\* One websocket_endpoint coroutine per connection, all on one event loop;
\* the first and the third connection are for the same session id.
Connections == {"c1", "c2", "c3"}
SessionOf == [c \in Connections |-> IF c = "c2" THEN "s2" ELSE "s1"]
HandlerSessions == {SessionOf[c] : c \in Connections}
TwoSessions == {"c1", "c2"}
OneSession == {"c1", "c3"}
MaxHandlerTurns == 1
MaxSharedTurns == 2

\* websocket_endpoint before the client connects: no locals yet.
Handler ==
  [pc |-> "closed", turn_number |-> 0, user_turns |-> 0, transcript |-> << >>,
   received |-> << >>]

\* What the user says to the handlers of two connections.
HandlerMessages == {<<"I"," ","f","e","e","l"," ","s","t","r","e","s","s","e","d"," ","a","t"," ","w","o","r","k">>, <<"t","h","e"," ","b","r","e","a","t","h","i","n","g"," ","h","e","l","p","e","d">>}
HandlerEmotions == {"anxiety"}
HandlerIntensities == {Frac(6, 10)}

\* The event sink: the Kafka producer behind kafka_memory_emitter.
SinkStates == {"ok", "failing", "absent", "slow"}

\* No emit_memory_event task has run yet.
NothingPublished ==
  [op |-> "None", session_id |-> "None", turn_number |-> 0, events |-> << >>,
   delivery |-> "None"]

exercise_signals ==
  <<<<"e","x","e","r","c","i","s","e">>, <<"e","x","e","r","c","i","c","e">>, <<"e","x","o","r","c","i","s","t">>, <<"e","x","c","e","r","s","i","z","e">>, <<"b","r","e","a","t","h","i","n","g">>, <<"b","r","e","a","t","h">>,
    <<"g","r","o","u","n","d","i","n","g">>, <<"g","r","o","u","n","d">>, <<"t","e","c","h","n","i","q","u","e">>, <<"t","h","a","t"," ","h","e","l","p","e","d">>, <<"f","e","e","l"," ","b","e","t","t","e","r">>,
    <<"f","e","e","l"," ","c","a","l","m","e","r">>, <<"d","i","d","n","'","t"," ","h","e","l","p">>, <<"d","i","d","n","'","t"," ","w","o","r","k">>, <<"s","t","i","l","l"," ","f","e","e","l">>>>
positive_signals ==
  <<<<"h","e","l","p","e","d">>, <<"b","e","t","t","e","r">>, <<"c","a","l","m","e","r">>, <<"r","e","l","a","x","e","d">>, <<"t","h","a","n","k">>, <<"g","o","o","d">>, <<"w","o","r","k","e","d">>>>
negative_signals ==
  <<<<"d","i","d","n","'","t"," ","h","e","l","p">>, <<"d","i","d","n","'","t"," ","w","o","r","k">>, <<"s","t","i","l","l">>, <<"s","a","m","e">>, <<"w","o","r","s","e">>, <<"n","o","t"," ","r","e","a","l","l","y">>>>

\* detect_exercise_feedback(message): None, or the exercise type and outcome.
detect_exercise_feedback(message) ==
  LET message_lower == Lower(message)
  IN  IF ~AnyIn(exercise_signals, message_lower) THEN [form |-> "None"]
      ELSE [form |-> "feedback",
            exercise_type |->
              IF AnyIn(<<<<"b","r","e","a","t","h">>, <<"b","r","e","a","t","h","i","n","g">>>>, message_lower) THEN "breathing"
              ELSE IF AnyIn(<<<<"g","r","o","u","n","d">>, <<"g","r","o","u","n","d","i","n","g">>, <<"5"," ","t","h","i","n","g","s">>, <<"s","e","n","s","e","s">>>>,
                            message_lower)
                   THEN "grounding"
                   ELSE "general",
            outcome |->
              IF AnyIn(positive_signals, message_lower) THEN "helped"
              ELSE IF AnyIn(negative_signals, message_lower) THEN "didnt_help"
                   ELSE "neutral",
            original_message |-> message]

\* get_correlation_id(session_id), with the module globals as they are when
\* it runs: f"{sid}-turn{_current_turn_number}".
get_correlation_id(session_id, global_session_id, global_turn_number) ==
  LET sid == IF session_id # "None" THEN session_id
             ELSE IF global_session_id # "None" THEN global_session_id
                  ELSE "unknown"
  IN  <<sid, "-turn", global_turn_number>>

\* The event emit_memory_event builds for one call, from the call's arguments
\* and the module globals as they are when the task runs.
emit_memory_event(event_type, session_id, global_session_id, global_turn_number) ==
  LET sid == IF session_id # "None" THEN session_id ELSE global_session_id
  IN  [event_type |-> event_type,
       correlation_id |-> get_correlation_id(sid, global_session_id, global_turn_number),
       session_id |-> sid,
       turn_number |-> global_turn_number]

\* What becomes of the event inside emit_memory_event and the task that runs
\* kafka_memory_emitter: every failure is caught and logged there.
Delivery(sink) ==
  CASE sink = "ok" -> "sent"
    [] sink = "absent" -> "skipped"
    [] sink = "failing" -> "logged"
    [] sink = "slow" -> "waiting"

\* emit_memory_event_sync awaiting the sink itself: it raises what the sink
\* raises and returns only when the sink has answered.
emit_memory_event_sync_awaiting(loop, sink) ==
  IF sink = "failing" THEN "raised"
  ELSE IF sink = "slow" THEN "blocked"
       ELSE "returned"

\* emit_memory_event_sync as the caller sees it.  On a running loop it only
\* creates the task; on a stopped loop it runs emit_memory_event, which
\* catches what the sink raises and only creates the sink's task; without a
\* loop the RuntimeError is caught and logged.
emit_memory_event_sync(loop, sink) ==
  CASE loop = "running" -> "returned"
    [] loop = "stopped" -> "returned"
    [] OTHER -> "returned"

\* The tasks one operation creates, in the order of its emit calls.
TasksOf(op, connection, session_id, turn_number, events) ==
  [op |-> op, connection |-> connection, session_id |-> session_id,
   turn_number |-> turn_number,
   calls |-> [i \in 1..Len(events) |->
                [event_type |-> events[i].event_type,
                 session_id |-> events[i].session_id]]]

\* No task created by the handler of connection c is waiting to run: the loop
\* runs them before it resumes the coroutine that created them.
NoTaskOf(c) == \A i \in 1..Len(pending) : pending[i].connection # c

\* ----------------------------------------------------- the closure check
closure_positive_emotions ==
  {"joy", "relief", "gratitude", "hope", "calm", "happy", "better", "good"}

\* emotion.lower(), on the emotion names of the model.
LowerEmotion(emotion) ==
  CASE emotion = "JOY" -> "joy"
    [] emotion = "Relief" -> "relief"
    [] OTHER -> emotion

\* check_session_closure without the test of the number of exchanges.
check_session_closure_any_length(memory, emotion, intensity) ==
  /\ LowerEmotion(emotion) \in closure_positive_emotions
  /\ ~Less(intensity, Frac(5, 10))
  /\ \/ Len(memory.breakthroughs) > 0
     \/ memory.phase \in {"integration", "closing", "technique"}

\* check_session_closure(memory, emotion, intensity)
check_session_closure(memory, emotion, intensity) ==
  IF memory.total_exchanges < 4 THEN FALSE
  ELSE IF LowerEmotion(emotion) \notin closure_positive_emotions THEN FALSE
  ELSE IF Less(intensity, Frac(5, 10)) THEN FALSE
  ELSE IF ~(Len(memory.breakthroughs) > 0)
          /\ ~(memory.phase \in {"integration", "closing", "technique"})
       THEN FALSE
       ELSE TRUE

\* ------------------------------------------------- ConnectionManager
\* ConnectionManager.connect: self.active_connections[session_id] = websocket
connect(connections, websocket, session_id) ==
  (session_id :> websocket) @@ connections

\* ConnectionManager.disconnect: del self.active_connections[session_id]
\* when the id is registered.
disconnect(connections, session_id) ==
  [s \in DOMAIN connections \ {session_id} |-> connections[s]]

\* ConnectionManager.send_message: the websocket the message is sent on, or
\* "None" when the id is not registered and nothing is sent.
send_message(connections, session_id) ==
  IF session_id \in DOMAIN connections THEN connections[session_id] ELSE "None"
\* -------------------------------------------------- the transcript's checks
\* The known speech recognition errors, in the order of the table.
SPEECH_ERRORS ==
  << [error |-> <<"e","x","o","r","c","i","s","t">>, correction |-> <<"e","x","e","r","c","i","s","e">>],
     [error |-> <<"e","x","e","r","c","i","c","e">>, correction |-> <<"e","x","e","r","c","i","s","e">>],
     [error |-> <<"e","x","e","r","c","i","s","t">>, correction |-> <<"e","x","e","r","c","i","s","e">>],
     [error |-> <<"e","x","c","e","r","s","i","z","e">>, correction |-> <<"e","x","e","r","c","i","s","e">>],
     [error |-> <<"b","r","e","a","t","h"," ","t","h","i","n","g">>, correction |-> <<"b","r","e","a","t","h","i","n","g">>],
     [error |-> <<"g","r","o","u","n","d"," ","t","h","i","n","g">>, correction |-> <<"g","r","o","u","n","d","i","n","g">>] >>
unusual_patterns ==
  << [error |-> <<"e","x","o","r","c","i","s","t">>, correction |-> <<"e","x","e","r","c","i","s","e">>],
     [error |-> <<"d","e","m","o","n">>, correction |-> <<"t","h","e","m">>] >>

\* The first entry of table whose error occurs in text, or 0.
FirstError(table, text) ==
  IF \E n \in 1..Len(table) : In(table[n].error, text)
  THEN CHOOSE n \in 1..Len(table) :
         /\ In(table[n].error, text)
         /\ \A j \in 1..(n - 1) : ~In(table[j].error, text)
  ELSE 0

\* detect_unclear_speech(message): None, or the unclear word and its
\* suggested correction; the first match of the first table wins.
detect_unclear_speech(message) ==
  LET message_lower == Lower(message)
      e == FirstError(SPEECH_ERRORS, message_lower)
      u == FirstError(unusual_patterns, message_lower)
  IN  IF e # 0
      THEN [form |-> "unclear", unclear_word |-> SPEECH_ERRORS[e].error,
            suggested_correction |-> SPEECH_ERRORS[e].correction,
            original_message |-> message]
      ELSE IF u # 0
      THEN [form |-> "unclear", unclear_word |-> unusual_patterns[u].error,
            suggested_correction |-> unusual_patterns[u].correction,
            original_message |-> message]
      ELSE [form |-> "None"]

RECURSIVE Replace(_, _, _)
\* s.replace(old, new), old not empty: every occurrence, from the left.
Replace(s, old, new) ==
  IF Len(s) < Len(old) THEN s
  ELSE IF OccursAt(old, s, 0)
  THEN new \o Replace(SubSeq(s, Len(old) + 1, Len(s)), old, new)
  ELSE <<Head(s)>> \o Replace(Tail(s), old, new)

\* The transcript the handler goes on with after step 1.5: lower-cased and
\* corrected when detect_unclear_speech answers, as received otherwise.
CorrectedTranscript(transcript) ==
  IF detect_unclear_speech(transcript).form = "unclear"
  THEN Replace(Lower(transcript), detect_unclear_speech(transcript).unclear_word,
               detect_unclear_speech(transcript).suggested_correction)
  ELSE transcript

\* The characters \w matches, among those of the model's texts.
WordChars ==
  {"a", "b", "c", "d", "e", "f", "g", "h", "i", "j", "k", "l", "m", "n", "o", "p",
   "q", "r", "s", "t", "u", "v", "w", "x", "y", "z", "A", "B", "C", "D", "E", "F",
   "G", "H", "I", "J", "K", "L", "M", "N", "O", "P", "Q", "R", "S", "T", "U", "V",
   "W", "X", "Y", "Z", "0", "1", "2", "3", "4", "5", "6", "7", "8", "9", "_"}

\* re.compile(r"\bphrase\b", re.IGNORECASE) finds phrase in text.
FindsPhrase(phrase, text) ==
  \E i \in 0..Len(text) :
    /\ OccursAt(phrase, Lower(text), i)
    /\ i = 0 \/ text[i] \notin WordChars
    /\ i + Len(phrase) = Len(text) \/ text[i + Len(phrase) + 1] \notin WordChars

\* SafetyEvaluator.CRISIS_INDICATORS: each pattern as the phrases it matches.
CRISIS_INDICATORS ==
  [critical |->
     <<<<"s","u","i","c","i","d","e">>, <<"s","u","i","c","i","d","a","l">>, <<"k","i","l","l"," ","m","y","s","e","l","f">>, <<"k","i","l","l"," ","m","e">>, <<"e","n","d"," ","m","y">>,
       <<"e","n","d"," ","i","t"," ","a","l","l">>, <<"e","n","d"," ","e","v","e","r","y","t","h","i","n","g">>, <<"d","o","n","'","t"," ","w","a","n","t"," ","t","o"," ","l","i","v","e">>,
       <<"d","o","n","'","t"," ","w","a","n","t"," ","t","o"," ","b","e"," ","a","l","i","v","e">>, <<"d","o","n","'","t"," ","w","a","n","t"," ","t","o"," ","e","x","i","s","t">>, <<"d","o","n","t"," ","w","a","n","t"," ","t","o"," ","l","i","v","e">>,
       <<"d","o","n","t"," ","w","a","n","t"," ","t","o"," ","b","e"," ","a","l","i","v","e">>, <<"d","o","n","t"," ","w","a","n","t"," ","t","o"," ","e","x","i","s","t">>, <<"b","e","t","t","e","r"," ","o","f","f"," ","d","e","a","d">>,
       <<"n","o"," ","r","e","a","s","o","n"," ","t","o"," ","l","i","v","e">>, <<"p","l","a","n"," ","t","o"," ","d","i","e">>, <<"p","l","a","n"," ","t","o"," ","e","n","d"," ","i","t">>>>,
   high |->
     <<<<"s","e","l","f","-","h","a","r","m">>, <<"s","e","l","f"," ","h","a","r","m">>, <<"s","e","l","f","h","a","r","m">>, <<"h","u","r","t"," ","m","y","s","e","l","f">>, <<"h","u","r","t"," ","m","e">>,
       <<"c","u","t"," ","m","y","s","e","l","f">>, <<"c","u","t"," ","m","e">>, <<"c","u","t","t","i","n","g"," ","m","y","s","e","l","f">>, <<"c","u","t","t","i","n","g"," ","m","e">>, <<"w","a","n","t"," ","t","o"," ","d","i","e">>,
       <<"w","a","n","t"," ","t","o"," ","d","i","s","a","p","p","e","a","r">>, <<"c","a","n","'","t"," ","g","o"," ","o","n">>, <<"c","a","n","'","t"," ","t","a","k","e"," ","i","t">>, <<"c","a","n","'","t"," ","d","o"," ","t","h","i","s">>,
       <<"c","a","n","t"," ","g","o"," ","o","n">>, <<"c","a","n","t"," ","t","a","k","e"," ","i","t">>, <<"c","a","n","t"," ","d","o"," ","t","h","i","s">>, <<"g","i","v","e"," ","u","p">>, <<"h","o","p","e","l","e","s","s">>>>,
   medium |->
     <<<<"w","o","r","t","h","l","e","s","s">>, <<"u","s","e","l","e","s","s">>, <<"b","u","r","d","e","n">>, <<"n","o"," ","o","n","e"," ","c","a","r","e","s">>, <<"n","o"," ","o","n","e"," ","w","o","u","l","d"," ","m","i","s","s">>,
       <<"w","h","a","t","'","s"," ","t","h","e"," ","p","o","i","n","t">>, <<"w","h","a","t","s"," ","t","h","e"," ","p","o","i","n","t">>, <<"g","i","v","e"," ","u","p"," ","o","n"," ","l","i","f","e">>>>]
method_indicators == <<<<"h","o","w"," ","t","o">>, <<"w","a","y","s"," ","t","o">>, <<"b","e","s","t"," ","w","a","y"," ","t","o">>, <<"e","a","s","i","e","s","t"," ","w","a","y"," ","t","o">>>>

\* A pattern of the given severity finds something in text.
Indicated(severity, text) ==
  \E n \in 1..Len(CRISIS_INDICATORS[severity]) :
    FindsPhrase(CRISIS_INDICATORS[severity][n], text)

\* SafetyEvaluator.CRISIS_RESOURCES: the entries by their names.
CRISIS_RESOURCES ==
  [global |-> <<"International Association for Suicide Prevention">>,
   us |-> <<"988 Suicide and Crisis Lifeline", "Crisis Text Line",
            "SAMHSA National Helpline">>,
   uk |-> <<"Samaritans">>]

\* SafetyEvaluator._get_resources(severity)
get_resources(severity) ==
  IF severity \in {"none", "low"} THEN << >>
  ELSE CRISIS_RESOURCES.us \o CRISIS_RESOURCES.global

\* evaluate with a method phrase raising every severity below high.
evaluate_escalating_none(text) ==
  LET found == IF Indicated("critical", text) THEN "critical"
               ELSE IF Indicated("high", text) THEN "high"
               ELSE IF Indicated("medium", text) THEN "medium"
               ELSE "none"
      max_severity == IF found \in {"none", "medium"} /\ AnyIn(method_indicators, Lower(text))
                      THEN "high" ELSE found
  IN  [is_crisis |-> max_severity \in {"high", "critical"},
       severity |-> max_severity,
       resources |-> get_resources(max_severity),
       requires_handoff |-> max_severity = "critical"]

\* SafetyEvaluator.evaluate(text)
evaluate(text) ==
  LET found == IF Indicated("critical", text) THEN "critical"
               ELSE IF Indicated("high", text) THEN "high"
               ELSE IF Indicated("medium", text) THEN "medium"
               ELSE "none"
      max_severity == IF found = "medium" /\ AnyIn(method_indicators, Lower(text))
                      THEN "high" ELSE found
  IN  [is_crisis |-> max_severity \in {"high", "critical"},
       severity |-> max_severity,
       resources |-> get_resources(max_severity),
       requires_handoff |-> max_severity = "critical"]

\* SpecSpeech: what the user says to the handler of one connection: a
\* transcript with a known recognition error, which reads as exercise feedback
\* only once corrected, a transcript without one, and exercise feedback that
\* the safety evaluation flags as a crisis.
MaxSpeechTurns == 2
SpeechMessages ==
  {<<"T","h","e"," ","E","x","e","r","c","i","s","t"," ","w","a","s"," ","g","o","o","d">>, <<"I"," ","f","e","e","l"," ","s","t","r","e","s","s","e","d"," ","a","t"," ","w","o","r","k">>,
   <<"t","h","e"," ","b","r","e","a","t","h","i","n","g"," ","d","i","d","n","'","t"," ","h","e","l","p",","," ","I"," ","g","i","v","e"," ","u","p">>}

\* The checks over the transcripts of the model, computed once per text.
Transcripts == HandlerMessages \cup SpeechMessages
CorrectedOf == [m \in Transcripts |-> CorrectedTranscript(m)]
SafetyOf == [m \in Transcripts |-> evaluate(m)]
ExerciseFeedbackOf ==
  [m \in Transcripts \cup {CorrectedOf[t] : t \in Transcripts} |->
     detect_exercise_feedback(m)]


\* SpecSafety: texts put together from a beginning, one phrase and an end.
\* The phrases are every indicator phrase, two in other letter cases and two
\* that indicate nothing; "un" and "ness" join the phrase to a longer word.
SafetyPrefixes == {<< >>, <<"I"," ","f","e","e","l"," ">>, <<"u","n">>}
SafetySuffixes == {<< >>, <<" ","h","o","w"," ","t","o">>, <<"n","e","s","s">>, <<","," ","w","a","y","s"," ","t","o"," ","c","o","p","e">>, <<","," ","b","e","t","t","e","r"," ","o","f","f"," ","d","e","a","d">>}
SafetyPhrases ==
  {CRISIS_INDICATORS.critical[n] : n \in 1..Len(CRISIS_INDICATORS.critical)}
  \cup {CRISIS_INDICATORS.high[n] : n \in 1..Len(CRISIS_INDICATORS.high)}
  \cup {CRISIS_INDICATORS.medium[n] : n \in 1..Len(CRISIS_INDICATORS.medium)}
  \cup {<<"H","O","P","E","L","E","S","S">>, <<"G","i","v","e"," ","U","p"," ","O","n"," ","L","i","f","e">>, <<"t","i","r","e","d">>, <<"f","i","n","e">>}
SafetyTexts ==
  {p \o x \o s : p \in SafetyPrefixes, x \in SafetyPhrases, s \in SafetySuffixes}

\* ------------------------------------------------------------- admin.py
\* The admin dashboards that connect to /events, each at most once (a
\* websocket object is never reused), and the events added to the store.
Dashboards == {"d1", "d2", "d3"}
AdminEvents == {"e1"}
MAX_EVENTS == 500

\* admin.py after import: _recent_events = [], _admin_connections = set(),
\* no broadcast task; no dashboard has connected or received anything.
AdminModule ==
  [recent_events |-> << >>,
   connections |-> {},
   sockets |-> [d \in Dashboards |-> "new"],
   tasks |-> << >>,
   delivered |-> [d \in Dashboards |-> {}]]

\* asyncio.create_task(broadcast_event(event)): the coroutine has not run.
BroadcastTask ==
  [pc |-> "created", size |-> 0, start |-> {}, visited |-> {}, disconnected |-> {}]

\* try: await ws.send_json(event) / except Exception: disconnected.add(ws),
\* for the task of event on the module state a.
SendJson(a, event, ws) ==
  IF a.sockets[ws] = "open"
  THEN [a EXCEPT !.delivered[ws] = @ \cup {event},
                 !.tasks[event].visited = @ \cup {ws}]
  ELSE [a EXCEPT !.tasks[event].disconnected = @ \cup {ws},
                 !.tasks[event].visited = @ \cup {ws}]

\* --------------------------------------------------------- analyzer.py
MAX_RETRIES == 3
\* What one generate_content call and the parsing of its answer can give:
\* an analysis, or an exception with this text (the last one is json.loads
\* failing on the answer).
ModelOutcomes ==
  {[ok |-> TRUE, error |-> << >>],
   [ok |-> FALSE, error |-> <<"4","2","9"," ","T","o","o"," ","M","a","n","y"," ","R","e","q","u","e","s","t","s">>],
   [ok |-> FALSE, error |-> <<"q","u","o","t","a",":"," ","R","E","S","O","U","R","C","E","_","E","X","H","A","U","S","T","E","D">>],
   [ok |-> FALSE, error |-> <<"5","0","3"," ","U","N","A","V","A","I","L","A","B","L","E">>],
   [ok |-> FALSE, error |-> <<"E","x","p","e","c","t","i","n","g"," ","v","a","l","u","e",":"," ","l","i","n","e"," ","1"," ","c","o","l","u","m","n"," ","1">>]}
\* The outcomes the model would give to the first MaxModelCalls calls.
MaxModelCalls == 4
ModelAnswers == [1..MaxModelCalls -> ModelOutcomes]

\* "429" in error_str or "RESOURCE_EXHAUSTED" in error_str
IsRateLimit(error_str) == In(<<"4","2","9">>, error_str) \/ In(<<"R","E","S","O","U","R","C","E","_","E","X","H","A","U","S","T","E","D">>, error_str)

\* The retry loop retrying after every exception while attempts remain.
RECURSIVE RetryLoopAnyError(_, _)
RetryLoopAnyError(attempt, answers) ==
  IF answers[attempt + 1].ok
  THEN [outcome |-> "returned", calls |-> attempt + 1, error |-> << >>]
  ELSE IF attempt < MAX_RETRIES - 1
       THEN RetryLoopAnyError(attempt + 1, answers)
       ELSE [outcome |-> "raised", calls |-> attempt + 1,
             error |-> answers[attempt + 1].error]

\* for attempt in range(MAX_RETRIES), from this attempt on: return the
\* analysis, continue after a rate-limit error while attempt <
\* MAX_RETRIES - 1, break otherwise; after the loop raise last_error.
RECURSIVE RetryLoop(_, _)
RetryLoop(attempt, answers) ==
  IF answers[attempt + 1].ok
  THEN [outcome |-> "returned", calls |-> attempt + 1, error |-> << >>]
  ELSE IF IsRateLimit(answers[attempt + 1].error) /\ attempt < MAX_RETRIES - 1
       THEN RetryLoop(attempt + 1, answers)
       ELSE [outcome |-> "raised", calls |-> attempt + 1,
             error |-> answers[attempt + 1].error]

\* analyze retrying after every exception.
analyze_retrying_any_error(answers) == RetryLoopAnyError(0, answers)

\* GeminiAnalyzer.analyze: the number of model calls and how it ends.
analyze(answers) == RetryLoop(0, answers)

\* ------------------------------------- ConversationMemory.to_context_string
\* The entries of the line "- User's topics:": for each of the last five
\* user_topics its weight, 0.5 when topic_weights has no entry for it; the
\* topic is listed when the weight is at least MIN_RELEVANCE_THRESHOLD, plainly
\* when it is above 0.5 and as "topic(fading)" otherwise.
weighted_topics(memory) ==
  LET recent == LastN(memory.user_topics, 5)
      WeightAt(i) == DictGet(memory.topic_weights, recent[i], Frac(5, 10))
      listed == SelectSeq([i \in 1..Len(recent) |-> i],
                          LAMBDA i : Leq(MIN_RELEVANCE_THRESHOLD, WeightAt(i)))
  IN  [n \in 1..Len(listed) |->
         [topic |-> recent[listed[n]],
          fading |-> ~Less(Frac(5, 10), WeightAt(listed[n]))]]
\* ------------------------------------------------------------- the inputs
SessionIds == {"s1"}
Responses == {<<"I"," ","h","e","a","r"," ","y","o","u","."," ","W","h","a","t"," ","i","s"," ","o","n"," ","y","o","u","r"," ","m","i","n","d"," ","t","o","d","a","y","?">>}
Techniques == {"validation"}

\* Spec: every operation, two messages, one emotion and intensity.
Messages == {<<"o","k">>, <<"I"," ","f","e","e","l"," ","s","t","r","e","s","s","e","d"," ","a","t"," ","w","o","r","k">>}
Emotions == {"anxiety"}
Intensities == {Frac(6, 10)}

\* SpecLedger: turn updates with several emotions and intensities.
LedgerMessages == {<<"o","k">>, <<"I"," ","f","e","e","l"," ","s","t","r","e","s","s","e","d"," ","a","t"," ","w","o","r","k">>}
LedgerEmotions == {"anxiety", "gratitude"}
LedgerIntensities == {Frac(1, 10), Frac(6, 10), Frac(1, 1)}

\* The configured trigger phrases of phase, as written in the table.
SignalsOf(phase) ==
  {PHASE_TRANSITION_SIGNALS[phase].signals[i] :
     i \in 1..Len(PHASE_TRANSITION_SIGNALS[phase].signals)}

\* SpecPhase: in each phase the user says one of that phase's trigger phrases
\* or one of a few other things, among them phrases in capitals.
OtherMessages == {<<"o","k">>, <<"I"," ","F","E","E","L"," ","l","o","s","t">>, <<"W","H","A","T"," ","S","H","O","U","L","D"," ","I"," ","D","O">>, <<"t","h","a","n","k"," ","y","o","u">>}
PhaseMessagesIn(phase) ==
  (IF phase \in DOMAIN PHASE_TRANSITION_SIGNALS THEN SignalsOf(phase) ELSE {})
    \cup OtherMessages
PhaseMessages == UNION {PhaseMessagesIn(p) : p \in Phases}
PhaseEmotions == {"anxiety"}
PhaseIntensities == {Frac(5, 10)}

\* SpecFade: long enough for a topic to fade and be mentioned again; the user
\* is anxious throughout, or calm in one of the first turns.
FadeMessages == {<<"o","k">>, <<"m","y"," ","b","o","s","s">>}
FadeEmotionsAt(total_exchanges) ==
  IF total_exchanges < CalmTurns THEN {"anxiety", "calm"} ELSE {"anxiety"}

\* SpecBreakthrough: a message with a signal phrase, the same in capitals and
\* one without, under emotions inside and outside the positive list.
MaxBreakthroughTurns == 2
BreakthroughMessages == {<<"I"," ","r","e","a","l","i","z","e"," ","t","h","i","s"," ","i","s"," ","m","y"," ","f","a","u","l","t">>, <<"O","H"," ","W","O","W">>, <<"o","k">>}
BreakthroughEmotions == {"anger", "relief", "Relief", "content"}

\* SpecClosure: turns that say nothing, record a breakthrough or move the
\* phase on, each followed by closure checks with an emotion and an intensity
\* on either side of every test.
MaxClosureTurns == 5
ClosureTriggers ==
  [opening |-> <<"f","e","e","l">>, exploration |-> <<"b","e","c","a","u","s","e">>, deepening |-> <<"w","a","n","t"," ","t","o"," ","c","h","a","n","g","e">>]
ClosureMessagesIn(phase) ==
  {<<"o","k">>, <<"I"," ","r","e","a","l","i","z","e"," ","t","h","i","s"," ","i","s"," ","m","y"," ","f","a","u","l","t">>}
    \cup (IF phase \in DOMAIN ClosureTriggers THEN {ClosureTriggers[phase]} ELSE {})
ClosureMessages == UNION {ClosureMessagesIn(p) : p \in Phases}
ClosureTurnEmotions == {"relief"}
ClosureEmotions == {"joy", "JOY", "anger"}
ClosureIntensities == {Frac(4, 10), Frac(5, 10), Frac(9, 10)}

\* SpecConflict: negative and positive emotions in every order, with
\* intensities at and just above 0.6 and at 1.0.
MaxConflictTurns == 3
ConflictMessages == {<<"o","k">>}
ConflictEmotions == {"anxiety", "gratitude", "calm"}
ConflictIntensities == {Frac(60, 100), Frac(62, 100), Frac(1, 1)}

\* SpecDominant: two emotions in either order, with intensities that leave
\* them at the same weight (1.0 * 0.9 * 0.7 = 0.7 * 0.9).
MaxDominantTurns == 3
DominantEmotions == {"anxiety", "gratitude"}
DominantIntensities == {Frac(7, 10), Frac(1, 1)}

\* SpecMissing: turn updates whose emotion or intensity may be None.
MaxMissingTurns == 3
MissingEmotions == {"anxiety", "calm", "None"}
MissingIntensities ==
  {[present |-> TRUE, value |-> Frac(5, 10)], [present |-> TRUE, value |-> Frac(9, 10)],
   [present |-> FALSE, value |-> Zero]}

\* SpecJournal: turn updates whose messages yield an insight of either form,
\* a breakthrough or nothing, under two emotions and two techniques, with
\* exercise logs of two kinds in between.
MaxJournalTurns == 3
MaxJournalExercises == 2
JournalMessages ==
  {<<"I"," ","t","h","i","n","k"," ","I"," ","f","a","i","l"," ","b","e","c","a","u","s","e"," ","I"," ","a","m"," ","t","i","r","e","d">>, <<"I"," ","a","l","w","a","y","s"," ","w","o","r","r","y">>,
   <<"I"," ","r","e","a","l","i","z","e"," ","t","h","i","s"," ","i","s"," ","m","y"," ","f","a","u","l","t">>}
JournalEmotions == {"anxiety", "relief"}
JournalTechniques == {"validation", "breathing"}
JournalExercises ==
  {[exercise_type |-> "breathing", outcome |-> "helped",
    user_feedback |-> <<"t","h","e"," ","b","r","e","a","t","h","i","n","g"," ","h","e","l","p","e","d">>],
   [exercise_type |-> "grounding", outcome |-> "didnt_help",
    user_feedback |-> <<"t","h","e"," ","g","r","o","u","n","d","i","n","g"," ","d","i","d","n","'","t"," ","h","e","l","p">>]}

\* SpecLifecycle: every operation of the registry on two sessions.
MaxLifecycleTurns == 2
LifecycleSessions == {"s1", "s2"}

\* SpecScenario: the two turns of the end-to-end scenario and a third
\* message, at the two intensities of the scenario, in every order.
MaxScenarioTurns == 3
ScenarioMessages ==
  {<<"I","'","m"," ","r","e","a","l","l","y"," ","a","n","x","i","o","u","s"," ","a","b","o","u","t"," ","w","o","r","k"," ","d","e","a","d","l","i","n","e","s">>,
   <<"I","'","v","e"," ","b","e","e","n"," ","f","e","e","l","i","n","g"," ","t","h","i","s"," ","w","a","y"," ","s","i","n","c","e"," ","m","y"," ","b","o","s","s"," ","c","h","a","n","g","e","d">>, <<"o","k">>}
ScenarioIntensities == {Frac(9, 10), Frac(6, 10)}

\* SpecTransition: the messages of SpecPhase, the user anxious or, once in
\* the TECHNIQUE phase, relieved, so that a turn can change the phase and
\* record a breakthrough.
MaxTransitionTurns == 8
TransitionEmotionsIn(phase) ==
  IF phase = "technique" THEN {"anxiety", "relief"} ELSE {"anxiety"}

UserMessages ==
  Messages \cup LedgerMessages \cup PhaseMessages \cup FadeMessages
    \cup HandlerMessages \cup BreakthroughMessages
    \cup ClosureMessages \cup ConflictMessages \cup JournalMessages
    \cup {CorrectedOf[t] : t \in Transcripts} \cup ScenarioMessages
AllEmotions ==
  Emotions \cup LedgerEmotions \cup PhaseEmotions \cup {"calm"} \cup HandlerEmotions
    \cup BreakthroughEmotions \cup ClosureTurnEmotions
    \cup ConflictEmotions \cup MissingEmotions \cup {"neutral"}
    \cup JournalEmotions

\* The extractors over the messages of the model, computed once per text.
TopicsOf == [m \in UserMessages |-> extract_topics(m)]
InsightOf == [m \in UserMessages |-> [e \in AllEmotions |-> extract_insight(m, e)]]
BreakthroughOf ==
  [m \in UserMessages |-> [e \in AllEmotions |-> detect_breakthrough(m, e)]]
TransitionSignalIn ==
  [p \in DOMAIN PHASE_TRANSITION_SIGNALS |->
     [m \in UserMessages |-> has_transition_signal(p, m)]]
ResponsePatternOf == [r \in Responses |-> get_response_pattern(r)]
QuestionThemeOf == [r \in Responses |-> extract_question_theme(r)]


\* SpecSalience: long enough for a topic to fade after ten turns without it.
\* Every turn either mentions work while the user is calm or mentions no topic
\* while the user is anxious, so that emotion_journey also tells in which
\* turns the topic was extracted.  The intensity is the largest one, or a
\* small one in the first turns.
MaxSalienceTurns == 12
SalienceTurns ==
  {[message |-> <<"m","y"," ","b","o","s","s">>, emotion |-> "calm"],
   [message |-> <<"o","k">>, emotion |-> "anxiety"]}
SalienceIntensitiesAt(total_exchanges) ==
  IF total_exchanges < 2 THEN {One, Frac(3, 10)} ELSE {One}
\* ---------------------------------------------------------- the decay pass
\* One decay loop over d: each entry with its weight before and after.
DecayLoop(d, factor) ==
  [i \in 1..Len(d) |-> [k |-> d[i].k, from |-> d[i].v, to |-> Times(d[i].v, factor)]]

\* The entries the loop kept (new_weight >= threshold) and those it marked faded.
KeptEntries(loop) == SelectSeq(loop, LAMBDA e : ~Less(e.to, MIN_RELEVANCE_THRESHOLD))
FadedEntries(loop) == SelectSeq(loop, LAMBDA e : Less(e.to, MIN_RELEVANCE_THRESHOLD))

\* d after the loop has stored the new weights and the faded keys are deleted.
DecayWeights(d, factor) ==
  LET kept == KeptEntries(DecayLoop(d, factor))
  IN  [i \in 1..Len(kept) |-> [k |-> kept[i].k, v |-> kept[i].to]]

\* The decay pass with the emotion factor used for the topics too.
apply_memory_decay_one_factor(memory) ==
  [memory |->
     [memory EXCEPT
        !.emotion_weights = DecayWeights(@, EMOTION_DECAY_FACTOR),
        !.topic_weights = DecayWeights(@, EMOTION_DECAY_FACTOR)],
   events |-> << >>]

\* _apply_memory_decay: the memory after the pass and the events it emits.
apply_memory_decay(memory) ==
  LET emotion_loop == DecayLoop(memory.emotion_weights, EMOTION_DECAY_FACTOR)
      decayed_emotions == KeptEntries(emotion_loop)
      faded_emotions == FadedEntries(emotion_loop)
      faded_topics == FadedEntries(DecayLoop(memory.topic_weights, TOPIC_DECAY_FACTOR))
  IN  [memory |->
         [memory EXCEPT
            !.emotion_weights = DecayWeights(@, EMOTION_DECAY_FACTOR),
            !.topic_weights = DecayWeights(@, TOPIC_DECAY_FACTOR)],
       events |->
         (IF decayed_emotions # << >>
          THEN <<Event("memory.emotion.decayed",
                       [decayed_emotions |-> decayed_emotions,
                        decay_factor |-> EMOTION_DECAY_FACTOR], "None")>>
          ELSE << >>)
         \o [i \in 1..Len(faded_emotions) |->
               Event("memory.emotion.faded", [emotion |-> faded_emotions[i].k], "None")]
         \o [i \in 1..Len(faded_topics) |->
               Event("memory.topic.faded", [topic |-> faded_topics[i].k], "None")]]

\* The phase check reading the trigger phrases of every phase, in phase order,
\* instead of those of the current phase only.
check_phase_transition_any_phase(memory, user_message) ==
  LET hits == {i \in 1..Len(ConversationPhase) :
                 /\ ConversationPhase[i] \in DOMAIN PHASE_TRANSITION_SIGNALS
                 /\ TransitionSignalIn[ConversationPhase[i]][user_message]}
      first == CHOOSE i \in hits : \A j \in hits : i <= j
  IN  IF memory.phase = "closing" \/ hits = {} THEN memory
      ELSE [memory EXCEPT
              !.phase = PHASE_TRANSITION_SIGNALS[ConversationPhase[first]].next,
              !.exchanges_in_phase = 0]

\* The phase check without the reset of exchanges_in_phase.
check_phase_transition_no_reset(memory, user_message) ==
  IF memory.phase \notin DOMAIN PHASE_TRANSITION_SIGNALS THEN memory
  ELSE IF memory.exchanges_in_phase < PHASE_TRANSITION_SIGNALS[memory.phase].min_exchanges
  THEN memory
  ELSE IF TransitionSignalIn[memory.phase][user_message]
  THEN [memory EXCEPT !.phase = PHASE_TRANSITION_SIGNALS[memory.phase].next]
  ELSE memory

\* The phase check without the minimum of exchanges in the phase.
check_phase_transition_without_gate(memory, user_message) ==
  IF memory.phase \notin DOMAIN PHASE_TRANSITION_SIGNALS THEN memory
  ELSE IF TransitionSignalIn[memory.phase][user_message]
  THEN [memory EXCEPT !.phase = PHASE_TRANSITION_SIGNALS[memory.phase].next,
                      !.exchanges_in_phase = 0]
  ELSE memory

\* _check_phase_transition
check_phase_transition(memory, user_message) ==
  IF memory.phase = "closing" THEN memory
  ELSE IF memory.phase \notin DOMAIN PHASE_TRANSITION_SIGNALS THEN memory
  ELSE
    LET transition_config == PHASE_TRANSITION_SIGNALS[memory.phase]
    IN  IF memory.exchanges_in_phase < transition_config.min_exchanges THEN memory
        ELSE IF TransitionSignalIn[memory.phase][user_message]
        THEN [memory EXCEPT !.phase = transition_config.next,
                            !.exchanges_in_phase = 0]
        ELSE memory

\* ------------------------------------------------------- the turn update
RECURSIVE SetTopicWeights(_, _)
\* memory.topic_weights[topic] = 1.0 for each extracted topic, in order
SetTopicWeights(d, topics) ==
  IF topics = << >> THEN d
  ELSE SetTopicWeights(DictSet(d, Head(topics), One), Tail(topics))

RECURSIVE SumValues(_)
\* sum(d.values())
SumValues(d) == IF d = << >> THEN 0 ELSE Head(d).v + SumValues(Tail(d))

SeqRange(s) == {s[i] : i \in 1..Len(s)}

\* The observed emotion stored as if it were always new.
BlendedWeightOverwrite(previous_weight, intensity) == Times(intensity, <<9, 10>>)

\* The observed intensity added to the previous weight.
BlendedWeightSum(previous_weight, intensity) == NumAdd(previous_weight, intensity)

\* The weight update_memory stores for the observed emotion.
BlendedWeight(previous_weight, intensity) ==
  IF Less(Zero, previous_weight)
  THEN NumMax(NumAdd(Times(previous_weight, <<6, 10>>), Times(intensity, <<4, 10>>)),
              Times(intensity, <<8, 10>>))
  ELSE Times(intensity, <<9, 10>>)

\* The counters taken from the turn number the caller has set.
IncrementCountersFromTurn(memory) ==
  [memory EXCEPT !.total_exchanges = current_turn_number,
                 !.exchanges_in_phase = @ + 1]

\* memory.total_exchanges += 1; memory.exchanges_in_phase += 1
IncrementCounters(memory) ==
  [memory EXCEPT !.total_exchanges = @ + 1, !.exchanges_in_phase = @ + 1]

\* The journal kept as a window of the two latest entries.
RecordEmotionLatestTwo(memory, emotion, intensity) ==
  [memory EXCEPT !.emotion_journey =
     LastN(Append(@, [emotion |-> emotion, intensity |-> intensity,
                      exchange |-> memory.total_exchanges]), 2)]

\* memory.emotion_journey.append({emotion, intensity, exchange, timestamp})
RecordEmotion(memory, emotion, intensity) ==
  [memory EXCEPT !.emotion_journey =
     Append(@, [emotion |-> emotion, intensity |-> intensity,
                exchange |-> memory.total_exchanges])]

\* The topic loop with the weight set only for a topic not yet in user_topics.
IncorporateTopicsNewOnly(memory, topics) ==
  LET unseen == SelectSeq(topics, LAMBDA t : t \notin SeqRange(memory.user_topics))
  IN  [memory EXCEPT !.user_topics = @ \o unseen,
                     !.topic_weights = SetTopicWeights(@, unseen)]

\* The loop over the extracted topics: an unseen topic joins user_topics, and
\* every extracted topic gets weight 1.0.
IncorporateTopics(memory, topics) ==
  [memory EXCEPT
     !.user_topics =
       @ \o SelectSeq(topics, LAMBDA t : t \notin SeqRange(memory.user_topics)),
     !.topic_weights = SetTopicWeights(@, topics)]

\* The state event reporting the exchange count before this turn.
StateUpdatedEventStale(memory, session_id) ==
  Event("memory.state.updated",
        [exchange_number |-> memory.total_exchanges - 1, phase |-> memory.phase],
        session_id)

\* The memory.state.updated event that ends update_memory.
StateUpdatedEvent(memory, session_id) ==
  LET dominant == get_dominant_emotion(memory)
  IN  Event("memory.state.updated",
            [exchange_number |-> memory.total_exchanges,
             phase |-> memory.phase,
             dominant_emotion |-> dominant.emotion,
             dominant_emotion_weight |-> dominant.weight,
             active_topics |-> KeyList(memory.topic_weights),
             techniques_used_count |-> SumValues(memory.techniques_used),
             insights_count |-> Len(memory.key_insights),
             breakthroughs_count |-> Len(memory.breakthroughs)], session_id)

\* Lines 480-529: the counters, the journal entry, the blend of the observed
\* emotion into the ledger, and the emotion and conflict events.  r is the
\* memory so far with the events emitted so far.
EmotionStep(r, session_id, emotion, intensity) ==
  LET previous_weight == DictGet(r.memory.emotion_weights, emotion, Zero)
      after ==
        [RecordEmotion(IncrementCounters(r.memory), emotion, intensity) EXCEPT
           !.emotion_weights =
             DictSet(@, emotion, BlendedWeight(previous_weight, intensity))]
  IN  [memory |-> after,
       events |->
         r.events
         \o <<Event("memory.emotion.detected",
                    [emotion |-> emotion, intensity |-> intensity,
                     previous_weight |-> previous_weight,
                     is_new |-> (previous_weight = Zero),
                     all_emotions |-> after.emotion_weights], session_id)>>
         \o detect_emotional_conflict(after, emotion, session_id)]

\* Lines 534-554: the extracted topics and the topic event.
TopicStep(r, session_id, user_message) ==
  LET new_topics ==
        SelectSeq(TopicsOf[user_message],
                  LAMBDA t : t \notin SeqRange(r.memory.user_topics))
      after == IncorporateTopics(r.memory, TopicsOf[user_message])
  IN  [memory |-> after,
       events |->
         r.events
         \o (IF new_topics # << >>
             THEN <<Event("memory.topic.identified",
                          [new_topics |-> new_topics,
                           all_topics |-> after.user_topics], session_id)>>
             ELSE << >>)]

\* The insight step without the test for an insight already recorded.
InsightStepRepeating(r, session_id, user_message, emotion) ==
  LET insight == InsightOf[user_message][emotion]
  IN  IF insight # NoText
      THEN [memory |-> [r.memory EXCEPT !.key_insights = Append(@, insight)],
            events |->
              r.events
              \o <<Event("memory.insight.extracted",
                         [insight |-> insight, derived_from_emotion |-> emotion,
                          total_insights |-> Len(r.memory.key_insights) + 1],
                         session_id)>>]
      ELSE r

\* Lines 557-570: the insight, added unless None or already there.
InsightStep(r, session_id, user_message, emotion) ==
  LET insight == InsightOf[user_message][emotion]
      add_insight == insight # NoText /\ insight \notin SeqRange(r.memory.key_insights)
  IN  IF add_insight
      THEN [memory |-> [r.memory EXCEPT !.key_insights = Append(@, insight)],
            events |->
              r.events
              \o <<Event("memory.insight.extracted",
                         [insight |-> insight, derived_from_emotion |-> emotion,
                          total_insights |-> Len(r.memory.key_insights) + 1],
                         session_id)>>]
      ELSE r

\* Lines 573-613: the technique count and the anti-repetition patterns.
TechniqueStep(r, session_id, ai_response, technique_used) ==
  LET usage_count == DictGet(r.memory.techniques_used, technique_used, 0) + 1
      after ==
        [r.memory EXCEPT
           !.techniques_used = DictSet(@, technique_used, usage_count),
           !.used_response_patterns = @ \cup {ResponsePatternOf[ai_response]},
           !.questions_asked =
             IF In(<<"?">>, ai_response)
             THEN @ \cup {QuestionThemeOf[ai_response]}
             ELSE @]
  IN  [memory |-> after,
       events |->
         r.events
         \o <<Event("memory.technique.used",
                    [technique |-> technique_used, usage_count |-> usage_count,
                     all_techniques |-> after.techniques_used], session_id)>>]

\* The phase step reading exchanges_in_phase for its event after the check.
PhaseStepCountingAfter(r, session_id, user_message, previous_phase) ==
  LET after == check_phase_transition(r.memory, user_message)
  IN  [memory |-> after,
       events |->
         r.events
         \o (IF after.phase # previous_phase
             THEN <<Event("memory.phase.transitioned",
                          [from_phase |-> previous_phase, to_phase |-> after.phase,
                           exchanges_in_previous_phase |-> after.exchanges_in_phase,
                           trigger |-> "user_signal_detected"], session_id)>>
             ELSE << >>)]

\* Lines 616-645: the phase check and the transition event; previous_phase is
\* the phase update_memory read before the decay pass.
PhaseStep(r, session_id, user_message, previous_phase) ==
  LET after == check_phase_transition(r.memory, user_message)
  IN  [memory |-> after,
       events |->
         r.events
         \o (IF after.phase # previous_phase
             THEN <<Event("memory.phase.transitioned",
                          [from_phase |-> previous_phase, to_phase |-> after.phase,
                           exchanges_in_previous_phase |-> r.memory.exchanges_in_phase,
                           trigger |-> "user_signal_detected"], session_id)>>
             ELSE << >>)]

\* Lines 648-662: the breakthrough, appended when one is detected.
BreakthroughStep(r, session_id, user_message, emotion) ==
  LET breakthrough == BreakthroughOf[user_message][emotion]
  IN  IF breakthrough # NoText
      THEN [memory |-> [r.memory EXCEPT !.breakthroughs = Append(@, breakthrough)],
            events |->
              r.events
              \o <<Event("memory.breakthrough.detected",
                         [breakthrough |-> breakthrough, emotion_context |-> emotion,
                          exchange_number |-> r.memory.total_exchanges,
                          total_breakthroughs |-> Len(r.memory.breakthroughs) + 1],
                         session_id)>>]
      ELSE r

\* Lines 664-681: the state event that ends the update.
StateStep(r, session_id) ==
  [memory |-> r.memory,
   events |-> r.events \o <<StateUpdatedEvent(r.memory, session_id)>>]

\* update_memory giving up the loop after its decay pass: the memory another
\* handler then finds.
update_memory_suspended_after_decay(memory, session_id, user_message, emotion, intensity, ai_response, technique_used) ==
  apply_memory_decay(memory)

\* update_memory without its decay pass.
update_memory_without_decay(memory, session_id, user_message, emotion, intensity, ai_response, technique_used) ==
  StateStep(
    BreakthroughStep(
      PhaseStep(
        TechniqueStep(
          InsightStep(
            TopicStep(
              EmotionStep([memory |-> memory, events |-> << >>], session_id,
                          emotion, intensity),
              session_id, user_message),
            session_id, user_message, emotion),
          session_id, ai_response, technique_used),
        session_id, user_message, memory.phase),
      session_id, user_message, emotion),
    session_id)

\* update_memory on the memory of session_id: the memory it leaves and the
\* events it emits, in order.
update_memory(memory, session_id, user_message, emotion, intensity, ai_response, technique_used) ==
  StateStep(
    BreakthroughStep(
      PhaseStep(
        TechniqueStep(
          InsightStep(
            TopicStep(
              EmotionStep(apply_memory_decay(memory), session_id, emotion, intensity),
              session_id, user_message),
            session_id, user_message, emotion),
          session_id, ai_response, technique_used),
        session_id, user_message, memory.phase),
      session_id, user_message, emotion),
    session_id)

\* log_exercise_completion counting the exercise as an exchange of the
\* conversation.
log_exercise_completion_as_turn(memory, session_id, exercise_type, outcome, user_feedback) ==
  LET exercise_record ==
        [exercise_type |-> exercise_type, outcome |-> outcome,
         user_feedback |-> user_feedback,
         emotion_before |-> IF memory.emotion_weights # << >>
                            THEN get_dominant_emotion(memory).emotion
                            ELSE "unknown"]
      m1 == [memory EXCEPT !.exercises_completed = Append(@, exercise_record),
                           !.total_exchanges = @ + 1,
                           !.exchanges_in_phase = @ + 1]
  IN  [memory |-> m1,
       events |-> <<Event("memory.exercise.completed",
                          [exercise_type |-> exercise_type, outcome |-> outcome,
                           user_feedback |-> Take(user_feedback, 100),
                           total_exercises |-> Len(m1.exercises_completed)],
                          session_id)>>]

\* log_exercise_completion on the memory of session_id.
log_exercise_completion(memory, session_id, exercise_type, outcome, user_feedback) ==
  LET exercise_record ==
        [exercise_type |-> exercise_type, outcome |-> outcome,
         user_feedback |-> user_feedback,
         emotion_before |-> IF memory.emotion_weights # << >>
                            THEN get_dominant_emotion(memory).emotion
                            ELSE "unknown"]
      m1 == [memory EXCEPT !.exercises_completed = Append(@, exercise_record)]
  IN  [memory |-> m1,
       events |-> <<Event("memory.exercise.completed",
                          [exercise_type |-> exercise_type, outcome |-> outcome,
                           user_feedback |-> Take(user_feedback, 100),
                           total_exercises |-> Len(m1.exercises_completed)],
                          session_id)>>]

\* ------------------------------------------------------------ the actions
Init ==
  /\ sessions = << >>
  /\ current_turn_number = 0
  /\ emitted = << >>
  /\ call = [op |-> "init"]
  /\ current_session_id = "None"
  /\ handlers = [c \in Connections |-> Handler]
  /\ pending = << >>
  /\ published = NothingPublished
  /\ active_connections = << >>
  /\ admin = AdminModule

\* get_or_create_memory keeping only the memory it hands out.
GetOrCreateMemoryEvicting(session_id) ==
  /\ sessions' = (session_id :> MemoryOf(sessions, session_id))
  /\ emitted' = << >>
  /\ call' = [op |-> "get_or_create_memory", session_id |-> session_id]
  /\ published' = NothingPublished
  /\ UNCHANGED <<active_connections, admin>>
  /\ UNCHANGED <<current_turn_number, handler_vars>>

\* ConversationStateManager.get_or_create_memory(session_id)
GetOrCreateMemory(session_id) ==
  /\ sessions' = IF session_id \in DOMAIN sessions THEN sessions
                 ELSE (session_id :> ConversationMemory) @@ sessions
  /\ emitted' = << >>
  /\ call' = [op |-> "get_or_create_memory", session_id |-> session_id]
  /\ published' = NothingPublished
  /\ UNCHANGED <<active_connections, admin>>
  /\ UNCHANGED <<current_turn_number, handler_vars>>

\* ConversationStateManager.update_memory(...), at most limit turns a memory
UpdateMemory(session_id, user_message, emotion, intensity, ai_response, technique_used, limit) ==
  LET memory == MemoryOf(sessions, session_id)
      r == update_memory(memory, session_id, user_message, emotion, intensity,
                         ai_response, technique_used)
  IN  /\ memory.total_exchanges < limit
      /\ sessions' = (session_id :> r.memory) @@ sessions
      /\ emitted' = r.events
      /\ call' = [op |-> "update_memory", session_id |-> session_id,
                  user_message |-> user_message, emotion |-> emotion,
                  intensity |-> intensity, ai_response |-> ai_response,
                  technique_used |-> technique_used]
      /\ published' = NothingPublished
      /\ UNCHANGED <<active_connections, admin>>
  /\ UNCHANGED <<current_turn_number, handler_vars>>

\* ConversationStateManager.log_exercise_completion(...)
LogExerciseCompletion(session_id, exercise_type, outcome, user_feedback) ==
  LET memory == MemoryOf(sessions, session_id)
      r == log_exercise_completion(memory, session_id, exercise_type, outcome,
                                   user_feedback)
  IN  /\ Len(memory.exercises_completed) < MaxExercises
      /\ sessions' = (session_id :> r.memory) @@ sessions
      /\ emitted' = r.events
      /\ call' = [op |-> "log_exercise_completion", session_id |-> session_id,
                  exercise_type |-> exercise_type, outcome |-> outcome,
                  user_feedback |-> user_feedback]
      /\ published' = NothingPublished
      /\ UNCHANGED <<active_connections, admin>>
  /\ UNCHANGED <<current_turn_number, handler_vars>>

\* clear_session emptying the whole registry.
ClearEverySession(session_id) ==
  /\ sessions' = << >>
  /\ emitted' = << >>
  /\ call' = [op |-> "clear_session", session_id |-> session_id]
  /\ published' = NothingPublished
  /\ UNCHANGED <<active_connections, admin>>
  /\ UNCHANGED <<current_turn_number, handler_vars>>

\* ConversationStateManager.clear_session(session_id)
ClearSession(session_id) ==
  /\ sessions' = [s \in DOMAIN sessions \ {session_id} |-> sessions[s]]
  /\ emitted' = << >>
  /\ call' = [op |-> "clear_session", session_id |-> session_id]
  /\ published' = NothingPublished
  /\ UNCHANGED <<active_connections, admin>>
  /\ UNCHANGED <<current_turn_number, handler_vars>>

\* set_current_turn(turn_number)
SetCurrentTurn(turn_number) ==
  /\ current_turn_number' = turn_number
  /\ emitted' = << >>
  /\ call' = [op |-> "set_current_turn", turn_number |-> turn_number]
  /\ published' = NothingPublished
  /\ UNCHANGED <<active_connections, admin>>
  /\ UNCHANGED <<sessions, handler_vars>>

Update ==
  \E s \in SessionIds, m \in Messages, e \in Emotions, i \in Intensities,
     r \in Responses, t \in Techniques :
    UpdateMemory(s, m, e, i, r, t, MaxTurns)

LogExercise ==
  \E s \in SessionIds :
    LogExerciseCompletion(s, "breathing", "helped", <<"t","h","e"," ","b","r","e","a","t","h","i","n","g"," ","h","e","l","p","e","d">>)

GetOrCreate == \E s \in SessionIds : GetOrCreateMemory(s)

Clear == \E s \in SessionIds : ClearSession(s)

SetTurn == \E n \in 0..MaxTurnNumber : SetCurrentTurn(n)

Next == Update \/ LogExercise \/ GetOrCreate \/ Clear \/ SetTurn

Spec == Init /\ [][Next]_vars

LedgerUpdate ==
  \E s \in SessionIds, m \in LedgerMessages, e \in LedgerEmotions,
     i \in LedgerIntensities, r \in Responses, t \in Techniques :
    UpdateMemory(s, m, e, i, r, t, MaxLedgerTurns)

SpecLedger == Init /\ [][LedgerUpdate]_vars

PhaseUpdate ==
  \E s \in SessionIds, e \in PhaseEmotions,
     i \in PhaseIntensities, r \in Responses, t \in Techniques :
    \E m \in PhaseMessagesIn(MemoryOf(sessions, s).phase) :
      UpdateMemory(s, m, e, i, r, t, MaxPhaseTurns)

SpecPhase == Init /\ [][PhaseUpdate]_vars

FadeUpdate ==
  \E s \in SessionIds, m \in FadeMessages, i \in PhaseIntensities,
     r \in Responses, t \in Techniques :
    \E e \in FadeEmotionsAt(MemoryOf(sessions, s).total_exchanges) :
      UpdateMemory(s, m, e, i, r, t, MaxFadeTurns)

SpecFade == Init /\ [][FadeUpdate]_vars

BreakthroughUpdate ==
  \E s \in SessionIds, m \in BreakthroughMessages, e \in BreakthroughEmotions,
     i \in PhaseIntensities, r \in Responses, t \in Techniques :
    UpdateMemory(s, m, e, i, r, t, MaxBreakthroughTurns)

SpecBreakthrough == Init /\ [][BreakthroughUpdate]_vars

\* websocket_endpoint at the end of a turn: the memory is fetched and
\* check_session_closure(memory, emotion, intensity) decides on the hint.
CheckSessionClosure(session_id, emotion, intensity) ==
  /\ sessions' = IF session_id \in DOMAIN sessions THEN sessions
                 ELSE (session_id :> ConversationMemory) @@ sessions
  /\ emitted' = << >>
  /\ call' = [op |-> "check_session_closure", session_id |-> session_id,
              emotion |-> emotion, intensity |-> intensity,
              result |-> check_session_closure(MemoryOf(sessions, session_id),
                                               emotion, intensity)]
  /\ published' = NothingPublished
  /\ UNCHANGED <<active_connections, admin>>
  /\ UNCHANGED <<current_turn_number, handler_vars>>

ClosureUpdate ==
  \E s \in SessionIds, e \in ClosureTurnEmotions, i \in PhaseIntensities,
     r \in Responses, t \in Techniques :
    \E m \in ClosureMessagesIn(MemoryOf(sessions, s).phase) :
      UpdateMemory(s, m, e, i, r, t, MaxClosureTurns)

ClosureCheck ==
  \E s \in SessionIds, e \in ClosureEmotions, i \in ClosureIntensities :
    CheckSessionClosure(s, e, i)

ClosureNext == ClosureUpdate \/ ClosureCheck

SpecClosure == Init /\ [][ClosureNext]_vars

ConflictUpdate ==
  \E s \in SessionIds, m \in ConflictMessages, e \in ConflictEmotions,
     i \in ConflictIntensities, r \in Responses, t \in Techniques :
    UpdateMemory(s, m, e, i, r, t, MaxConflictTurns)

SpecConflict == Init /\ [][ConflictUpdate]_vars

\* The memory is fetched and rendered for a prompt, which asks it for its
\* dominant emotion.
GetDominantEmotion(session_id) ==
  /\ sessions' = IF session_id \in DOMAIN sessions THEN sessions
                 ELSE (session_id :> ConversationMemory) @@ sessions
  /\ emitted' = << >>
  /\ call' = [op |-> "get_dominant_emotion", session_id |-> session_id,
              result |-> get_dominant_emotion(MemoryOf(sessions, session_id))]
  /\ published' = NothingPublished
  /\ UNCHANGED <<active_connections, admin>>
  /\ UNCHANGED <<current_turn_number, handler_vars>>

DominantUpdate ==
  \E s \in SessionIds, m \in ConflictMessages, e \in DominantEmotions,
     i \in DominantIntensities, r \in Responses, t \in Techniques :
    UpdateMemory(s, m, e, i, r, t, MaxDominantTurns)

DominantRead == \E s \in SessionIds : GetDominantEmotion(s)

DominantNext == DominantUpdate \/ DominantRead

SpecDominant == Init /\ [][DominantNext]_vars

\* None, for an optional number.
NoNumber == [form |-> "None"]

\* update_memory called with an emotion that may be None and an intensity
\* that may be None.  None as the emotion is used as it is, as a journal
\* entry and a key of the weights.  With None as the intensity the product
\* intensity * 0.9 raises TypeError after the decay pass, the counters and
\* the journal entry.
UpdateWithOptional(memory, session_id, user_message, emotion, intensity, ai_response, technique_used) ==
  IF intensity.present
  THEN [outcome |-> "returned",
        memory |-> update_memory(memory, session_id, user_message, emotion,
                                 intensity.value, ai_response, technique_used).memory,
        events |-> update_memory(memory, session_id, user_message, emotion,
                                 intensity.value, ai_response, technique_used).events]
  ELSE [outcome |-> "raised",
        memory |-> RecordEmotion(IncrementCounters(apply_memory_decay(memory).memory),
                                 emotion, NoNumber),
        events |-> apply_memory_decay(memory).events]

\* ConversationStateManager.update_memory(...) with optional arguments; no
\* further turn is taken on a memory whose update raised.
UpdateMemoryWithOptional(session_id, user_message, emotion, intensity, ai_response, technique_used, limit) ==
  LET memory == MemoryOf(sessions, session_id)
      r == UpdateWithOptional(memory, session_id, user_message, emotion, intensity,
                              ai_response, technique_used)
  IN  /\ memory.total_exchanges < limit
      /\ call.op = "update_memory" => call.result = "returned"
      /\ sessions' = (session_id :> r.memory) @@ sessions
      /\ emitted' = r.events
      /\ call' = [op |-> "update_memory", session_id |-> session_id,
                  user_message |-> user_message, emotion |-> emotion,
                  intensity |-> intensity, ai_response |-> ai_response,
                  technique_used |-> technique_used, result |-> r.outcome]
      /\ published' = NothingPublished
      /\ UNCHANGED <<active_connections, admin>>
      /\ UNCHANGED <<current_turn_number, handler_vars>>

MissingUpdate ==
  \E s \in SessionIds, m \in ConflictMessages, e \in MissingEmotions,
     i \in MissingIntensities, r \in Responses, t \in Techniques :
    UpdateMemoryWithOptional(s, m, e, i, r, t, MaxMissingTurns)

SpecMissing == Init /\ [][MissingUpdate]_vars

\* ConversationStateManager.log_exercise_completion(...), at most limit
\* records a memory.
LogExerciseCompletionUpTo(session_id, exercise_type, outcome, user_feedback, limit) ==
  LET memory == MemoryOf(sessions, session_id)
      r == log_exercise_completion(memory, session_id, exercise_type, outcome,
                                   user_feedback)
  IN  /\ Len(memory.exercises_completed) < limit
      /\ sessions' = (session_id :> r.memory) @@ sessions
      /\ emitted' = r.events
      /\ call' = [op |-> "log_exercise_completion", session_id |-> session_id,
                  exercise_type |-> exercise_type, outcome |-> outcome,
                  user_feedback |-> user_feedback]
      /\ published' = NothingPublished
      /\ UNCHANGED <<active_connections, admin>>
      /\ UNCHANGED <<current_turn_number, handler_vars>>

JournalUpdate ==
  \E s \in SessionIds, m \in JournalMessages, e \in JournalEmotions,
     i \in PhaseIntensities, r \in Responses, t \in JournalTechniques :
    UpdateMemory(s, m, e, i, r, t, MaxJournalTurns)

JournalLog ==
  \E s \in SessionIds, x \in JournalExercises :
    LogExerciseCompletionUpTo(s, x.exercise_type, x.outcome, x.user_feedback,
                              MaxJournalExercises)

JournalNext == JournalUpdate \/ JournalLog

SpecJournal == Init /\ [][JournalNext]_vars

LifecycleUpdate ==
  \E s \in LifecycleSessions, m \in ConflictMessages, e \in Emotions,
     i \in Intensities, r \in Responses, t \in Techniques :
    UpdateMemory(s, m, e, i, r, t, MaxLifecycleTurns)

LifecycleLog ==
  \E s \in LifecycleSessions :
    LogExerciseCompletion(s, "breathing", "helped", <<"t","h","e"," ","b","r","e","a","t","h","i","n","g"," ","h","e","l","p","e","d">>)

LifecycleGet == \E s \in LifecycleSessions : GetOrCreateMemory(s)

LifecycleClear == \E s \in LifecycleSessions : ClearSession(s)

LifecycleNext == LifecycleUpdate \/ LifecycleLog \/ LifecycleGet \/ LifecycleClear

SpecLifecycle == Init /\ [][LifecycleNext]_vars

ScenarioUpdate ==
  \E s \in SessionIds, m \in ScenarioMessages, e \in Emotions,
     i \in ScenarioIntensities, r \in Responses, t \in Techniques :
    UpdateMemory(s, m, e, i, r, t, MaxScenarioTurns)

SpecScenario == Init /\ [][ScenarioUpdate]_vars

TransitionUpdate ==
  \E s \in SessionIds, i \in PhaseIntensities, r \in Responses, t \in Techniques :
    \E m \in PhaseMessagesIn(MemoryOf(sessions, s).phase),
       e \in TransitionEmotionsIn(MemoryOf(sessions, s).phase) :
      UpdateMemory(s, m, e, i, r, t, MaxTransitionTurns)

SpecTransition == Init /\ [][TransitionUpdate]_vars

\* ------------------------------------------------------------ the model
\* Every stored weight leaves the last limb empty, so the next product by a
\* two-digit decimal factor is exact.
PrecisionKept ==
  \A s \in DOMAIN sessions :
    /\ \A i \in 1..Len(sessions[s].emotion_weights) :
         sessions[s].emotion_weights[i].v[NumLen] = 0
    /\ \A i \in 1..Len(sessions[s].topic_weights) :
         sessions[s].topic_weights[i].v[NumLen] = 0


SalienceUpdate ==
  \E s \in SessionIds, x \in SalienceTurns, r \in Responses, t \in Techniques :
    \E i \in SalienceIntensitiesAt(MemoryOf(sessions, s).total_exchanges) :
      UpdateMemory(s, x.message, x.emotion, i, r, t, MaxSalienceTurns)

SpecSalience == Init /\ [][SalienceUpdate]_vars
\* ------------------------------------------------ the handlers' steps
\* The memory update_memory leaves behind when its first emit call does not
\* return: the decay pass is done if that pass made the call, and otherwise
\* the observation of the emotion as well.
StoppedAtFirstEmit(memory, session_id, emotion, intensity) ==
  IF apply_memory_decay(memory).events # << >>
  THEN apply_memory_decay(memory).memory
  ELSE EmotionStep(apply_memory_decay(memory), session_id, emotion, intensity).memory

\* update_memory as generate_response sees it, the sink being in state sink
\* while it runs on the running loop.
UpdateOutcome(memory, session_id, user_message, emotion, intensity, ai_response, technique_used, sink) ==
  IF emit_memory_event_sync("running", sink) = "returned"
  THEN [outcome |-> "returned",
        memory |-> update_memory(memory, session_id, user_message, emotion,
                                 intensity, ai_response, technique_used).memory,
        events |-> update_memory(memory, session_id, user_message, emotion,
                                 intensity, ai_response, technique_used).events]
  ELSE [outcome |-> emit_memory_event_sync("running", sink),
        memory |-> StoppedAtFirstEmit(memory, session_id, emotion, intensity),
        events |-> << >>]

\* log_exercise_completion as the handler sees it: the record is appended
\* before the one emit call.
LogOutcome(memory, session_id, exercise_type, outcome, user_feedback, sink) ==
  [outcome |-> emit_memory_event_sync("running", sink),
   memory |-> log_exercise_completion(memory, session_id, exercise_type, outcome,
                                      user_feedback).memory,
   events |-> IF emit_memory_event_sync("running", sink) = "returned"
              THEN log_exercise_completion(memory, session_id, exercise_type,
                                           outcome, user_feedback).events
              ELSE << >>]

\* websocket_endpoint up to its first receive_text: the connection is
\* accepted and set_memory_event_emitter(kafka_memory_emitter, session_id)
\* sets the module globals.
Connect(c) ==
  /\ handlers[c].pc = "closed"
  /\ handlers' = [handlers EXCEPT ![c] = [Handler EXCEPT !.pc = "receiving"]]
  /\ current_session_id' = SessionOf[c]
  /\ current_turn_number' = 0
  /\ emitted' = << >>
  /\ call' = [op |-> "set_memory_event_emitter", session_id |-> SessionOf[c]]
  /\ published' = NothingPublished
  /\ active_connections' = connect(active_connections, c, SessionOf[c])
  /\ UNCHANGED <<sessions, pending, admin>>

\* A user_speech message arrives: the turn number is counted from the
\* history and set_current_turn(turn_number) sets the module global.
ReceiveSpeech(c, transcript, limit) ==
  /\ handlers[c].pc = "receiving"
  /\ NoTaskOf(c)
  /\ handlers[c].user_turns < limit
  /\ MemoryOf(sessions, SessionOf[c]).total_exchanges < limit
  /\ ExerciseFeedbackOf[CorrectedOf[transcript]].form = "feedback"
       => Len(MemoryOf(sessions, SessionOf[c]).exercises_completed) < MaxExercises
  /\ handlers' = [handlers EXCEPT ![c] =
                    [@ EXCEPT !.pc = "screening",
                              !.turn_number = handlers[c].user_turns + 1,
                              !.transcript = transcript,
                              !.received = transcript]]
  /\ current_turn_number' = handlers[c].user_turns + 1
  /\ emitted' = << >>
  /\ call' = [op |-> "set_current_turn", session_id |-> SessionOf[c],
              turn_number |-> handlers[c].user_turns + 1]
  /\ published' = NothingPublished
  /\ UNCHANGED <<active_connections, admin>>
  /\ UNCHANGED <<sessions, current_session_id, pending>>

\* The crisis branch with the user's message appended to the history.
SafetyAlertRecordingTurn(c) ==
  /\ handlers[c].pc = "screening"
  /\ NoTaskOf(c)
  /\ SafetyOf[handlers[c].transcript].is_crisis
  /\ handlers' = [handlers EXCEPT ![c] =
                    [@ EXCEPT !.pc = "receiving", !.user_turns = @ + 1]]
  /\ emitted' = << >>
  /\ call' = [op |-> "safety_alert", session_id |-> SessionOf[c],
              evaluated |-> handlers[c].transcript,
              severity |-> SafetyOf[handlers[c].transcript].severity]
  /\ published' = NothingPublished
  /\ UNCHANGED <<active_connections, admin>>
  /\ UNCHANGED <<sessions, current_turn_number, current_session_id, pending>>

\* The safety evaluation has answered and the alert's voice is synthesized:
\* the transcript is a crisis, the safety_alert is sent and the loop continues.
SafetyAlert(c) ==
  /\ handlers[c].pc = "screening"
  /\ NoTaskOf(c)
  /\ SafetyOf[handlers[c].transcript].is_crisis
  /\ handlers' = [handlers EXCEPT ![c].pc = "receiving"]
  /\ emitted' = << >>
  /\ call' = [op |-> "safety_alert", session_id |-> SessionOf[c],
              evaluated |-> handlers[c].transcript,
              severity |-> SafetyOf[handlers[c].transcript].severity]
  /\ published' = NothingPublished
  /\ UNCHANGED <<active_connections, admin>>
  /\ UNCHANGED <<sessions, current_turn_number, current_session_id, pending>>

\* Step 1.6 before step 1.5: the exercise feedback is looked for in the
\* transcript as received, and the transcript is corrected afterwards.
ScreenDetectingFirst(c, sink) ==
  LET s == SessionOf[c]
      memory == MemoryOf(sessions, s)
      transcript == handlers[c].transcript
      feedback == ExerciseFeedbackOf[transcript]
      r == LogOutcome(memory, s, feedback.exercise_type, feedback.outcome,
                      transcript, sink)
  IN  /\ handlers[c].pc = "screening"
      /\ ~SafetyOf[handlers[c].transcript].is_crisis
      /\ IF feedback.form = "feedback"
         THEN /\ sessions' = (s :> r.memory) @@ sessions
              /\ emitted' = r.events
              /\ pending' = IF r.events = << >> THEN pending
                            ELSE Append(pending,
                                        TasksOf("log_exercise_completion", c, s,
                                                handlers[c].turn_number, r.events))
              /\ call' = [op |-> "log_exercise_completion", session_id |-> s,
                          exercise_type |-> feedback.exercise_type,
                          outcome |-> feedback.outcome,
                          user_feedback |-> transcript,
                          evaluated |-> handlers[c].transcript,
                          detected |-> transcript,
                          sink |-> sink, result |-> r.outcome]
              /\ handlers' = [handlers EXCEPT ![c] =
                                [@ EXCEPT !.pc = IF r.outcome = "returned"
                                                 THEN "analysing" ELSE "ended",
                                          !.transcript = CorrectedOf[transcript]]]
         ELSE /\ emitted' = << >>
              /\ call' = [op |-> "detect_exercise_feedback", session_id |-> s,
                          evaluated |-> handlers[c].transcript,
                          detected |-> transcript]
              /\ handlers' = [handlers EXCEPT ![c] =
                                [@ EXCEPT !.pc = "analysing",
                                          !.transcript = CorrectedOf[transcript]]]
              /\ UNCHANGED <<sessions, pending>>
      /\ published' = NothingPublished
      /\ UNCHANGED <<active_connections, admin>>
      /\ UNCHANGED <<current_turn_number, current_session_id>>

\* The safety evaluation has answered without a crisis: the transcript is
\* corrected (step 1.5), exercise feedback in it is logged (step 1.6), and
\* the analysis is awaited.
Screen(c, sink) ==
  LET s == SessionOf[c]
      memory == MemoryOf(sessions, s)
      transcript == CorrectedOf[handlers[c].transcript]
      feedback == ExerciseFeedbackOf[transcript]
      r == LogOutcome(memory, s, feedback.exercise_type, feedback.outcome,
                      transcript, sink)
  IN  /\ handlers[c].pc = "screening"
      /\ ~SafetyOf[handlers[c].transcript].is_crisis
      /\ IF feedback.form = "feedback"
         THEN /\ sessions' = (s :> r.memory) @@ sessions
              /\ emitted' = r.events
              /\ pending' = IF r.events = << >> THEN pending
                            ELSE Append(pending,
                                        TasksOf("log_exercise_completion", c, s,
                                                handlers[c].turn_number, r.events))
              /\ call' = [op |-> "log_exercise_completion", session_id |-> s,
                          exercise_type |-> feedback.exercise_type,
                          outcome |-> feedback.outcome,
                          user_feedback |-> transcript,
                          evaluated |-> handlers[c].transcript,
                          detected |-> transcript,
                          sink |-> sink, result |-> r.outcome]
              /\ handlers' = [handlers EXCEPT ![c] =
                                [@ EXCEPT !.pc = IF r.outcome = "returned"
                                                 THEN "analysing" ELSE "ended",
                                          !.transcript = transcript]]
         ELSE /\ emitted' = << >>
              /\ call' = [op |-> "detect_exercise_feedback", session_id |-> s,
                          evaluated |-> handlers[c].transcript,
                          detected |-> transcript]
              /\ handlers' = [handlers EXCEPT ![c] =
                                [@ EXCEPT !.pc = "analysing",
                                          !.transcript = transcript]]
              /\ UNCHANGED <<sessions, pending>>
      /\ published' = NothingPublished
      /\ UNCHANGED <<active_connections, admin>>
      /\ UNCHANGED <<current_turn_number, current_session_id>>

\* The turn ends early: the analysis, the technique selection or the
\* response generation failed, the error is sent and the loop continues.
FailTurn(c) ==
  /\ handlers[c].pc \in {"analysing", "generating"}
  /\ NoTaskOf(c)
  /\ handlers' = [handlers EXCEPT ![c].pc = "receiving"]
  /\ emitted' = << >>
  /\ call' = [op |-> "continue", session_id |-> SessionOf[c]]
  /\ published' = NothingPublished
  /\ UNCHANGED <<active_connections, admin>>
  /\ UNCHANGED <<sessions, current_turn_number, current_session_id, pending>>

\* The analysis has answered; select_technique and generate_response fetch
\* the memory to render it into their prompts, and the model is awaited.
Render(c) ==
  /\ handlers[c].pc = "analysing"
  /\ NoTaskOf(c)
  /\ handlers' = [handlers EXCEPT ![c].pc = "generating"]
  /\ sessions' = IF SessionOf[c] \in DOMAIN sessions THEN sessions
                 ELSE (SessionOf[c] :> ConversationMemory) @@ sessions
  /\ emitted' = << >>
  /\ call' = [op |-> "get_or_create_memory", session_id |-> SessionOf[c],
              analysed |-> handlers[c].transcript]
  /\ published' = NothingPublished
  /\ UNCHANGED <<active_connections, admin>>
  /\ UNCHANGED <<current_turn_number, current_session_id, pending>>

\* The model has answered inside generate_response, which then calls
\* update_memory for the session and returns to the handler.
Respond(c, emotion, intensity, ai_response, technique_used, sink, limit) ==
  LET s == SessionOf[c]
      memory == MemoryOf(sessions, s)
      r == UpdateOutcome(memory, s, handlers[c].transcript, emotion, intensity,
                         ai_response, technique_used, sink)
  IN  /\ handlers[c].pc = "generating"
      /\ memory.total_exchanges < limit
      /\ sessions' = (s :> r.memory) @@ sessions
      /\ emitted' = r.events
      /\ pending' = IF r.events = << >> THEN pending
                    ELSE Append(pending,
                                TasksOf("update_memory", c, s, handlers[c].turn_number,
                                        r.events))
      /\ call' = [op |-> "update_memory", session_id |-> s,
                  user_message |-> handlers[c].transcript, emotion |-> emotion,
                  intensity |-> intensity, ai_response |-> ai_response,
                  technique_used |-> technique_used,
                  sink |-> sink, result |-> r.outcome]
      /\ handlers' = [handlers EXCEPT ![c].pc =
                        IF r.outcome = "returned" THEN "replying" ELSE "receiving"]
      /\ published' = NothingPublished
      /\ UNCHANGED <<active_connections, admin>>
      /\ UNCHANGED <<current_turn_number, current_session_id>>

\* The rest of the turn: the exchange is appended to the history, the answer
\* is sent and the memory is fetched for the closure check.
Finish(c) ==
  /\ handlers[c].pc = "replying"
  /\ NoTaskOf(c)
  /\ handlers' = [handlers EXCEPT ![c] =
                    [@ EXCEPT !.pc = "receiving", !.user_turns = @ + 1]]
  /\ sessions' = IF SessionOf[c] \in DOMAIN sessions THEN sessions
                 ELSE (SessionOf[c] :> ConversationMemory) @@ sessions
  /\ emitted' = << >>
  /\ call' = [op |-> "get_or_create_memory", session_id |-> SessionOf[c],
              content |-> handlers[c].transcript, connection |-> c,
              sent_to |-> send_message(active_connections, SessionOf[c])]
  /\ published' = NothingPublished
  /\ UNCHANGED <<active_connections, admin>>
  /\ UNCHANGED <<current_turn_number, current_session_id, pending>>

\* WebSocketDisconnect out of receive_text: manager.disconnect(session_id),
\* the memory is fetched for the session summary and the coroutine ends.
Disconnect(c) ==
  /\ handlers[c].pc = "receiving"
  /\ NoTaskOf(c)
  /\ handlers' = [handlers EXCEPT ![c] = Handler]
  /\ sessions' = IF SessionOf[c] \in DOMAIN sessions THEN sessions
                 ELSE (SessionOf[c] :> ConversationMemory) @@ sessions
  /\ emitted' = << >>
  /\ call' = [op |-> "get_or_create_memory", session_id |-> SessionOf[c]]
  /\ published' = NothingPublished
  /\ active_connections' = disconnect(active_connections, SessionOf[c])
  /\ UNCHANGED <<current_turn_number, current_session_id, pending, admin>>

\* An exception that no inner try catches: receive_text hands json.loads a
\* text that is not JSON, the voice synthesis of the safety alert or of the
\* response raises, or the send does.  The except clause around the loop
\* sends the error message and websocket_endpoint returns.
UnexpectedError(c) ==
  /\ \/ handlers[c].pc \in {"receiving", "replying"}
     \/ /\ handlers[c].pc = "screening"
        /\ SafetyOf[handlers[c].transcript].is_crisis
  /\ NoTaskOf(c)
  /\ handlers' = [handlers EXCEPT ![c].pc = "ended"]
  /\ emitted' = << >>
  /\ call' = [op |-> "unexpected_error", session_id |-> SessionOf[c],
              connection |-> c, stage |-> handlers[c].pc]
  /\ published' = NothingPublished
  /\ UNCHANGED <<active_connections, admin>>
  /\ UNCHANGED <<sessions, current_turn_number, current_session_id, pending>>

\* The loop runs the oldest tasks: each emit_memory_event builds its event
\* from the module globals as they are now and hands it to the sink.
RunEmitTasks(sink) ==
  /\ pending # << >>
  /\ published' =
       [op |-> Head(pending).op,
        session_id |-> Head(pending).session_id,
        turn_number |-> Head(pending).turn_number,
        events |-> [i \in 1..Len(Head(pending).calls) |->
                      emit_memory_event(Head(pending).calls[i].event_type,
                                        Head(pending).calls[i].session_id,
                                        current_session_id, current_turn_number)],
        delivery |-> Delivery(sink)]
  /\ pending' = Tail(pending)
  /\ emitted' = << >>
  /\ call' = [op |-> "emit_memory_event"]
  /\ UNCHANGED <<sessions, current_turn_number, current_session_id, handlers>>
  /\ UNCHANGED <<active_connections, admin>>

HandlerConnect(cs) == \E c \in cs : Connect(c)

HandlerReceive(cs, limit) ==
  \E c \in cs, m \in HandlerMessages : ReceiveSpeech(c, m, limit)

HandlerScreen(cs) == \E c \in cs, sink \in SinkStates : Screen(c, sink)

HandlerAlert(cs) == \E c \in cs : SafetyAlert(c)

HandlerFail(cs) == \E c \in cs : FailTurn(c)

HandlerError(cs) == \E c \in cs : UnexpectedError(c)

HandlerRender(cs) == \E c \in cs : Render(c)

HandlerRespond(cs, limit) ==
  \E c \in cs, e \in HandlerEmotions, i \in HandlerIntensities,
     r \in Responses, t \in Techniques, sink \in SinkStates :
    Respond(c, e, i, r, t, sink, limit)

HandlerFinish(cs) == \E c \in cs : Finish(c)

HandlerDisconnect(cs) == \E c \in cs : Disconnect(c)

\* POST /sessions/{session_id}/end: end_session clears the memory.
EndSession(cs) == \E c \in cs : ClearSession(SessionOf[c])

EmitTasks == \E sink \in SinkStates : RunEmitTasks(sink)

\* Two connections for two sessions.
HandlerNext ==
  \/ HandlerConnect(TwoSessions)
  \/ HandlerReceive(TwoSessions, MaxHandlerTurns)
  \/ HandlerScreen(TwoSessions)
  \/ HandlerFail(TwoSessions)
  \/ HandlerRender(TwoSessions)
  \/ HandlerRespond(TwoSessions, MaxHandlerTurns)
  \/ HandlerFinish(TwoSessions)
  \/ HandlerDisconnect(TwoSessions)
  \/ EndSession(TwoSessions)
  \/ EmitTasks

SpecHandlers == Init /\ [][HandlerNext]_vars

\* Two connections for the same session, while both stay open.
SharedNext ==
  \/ HandlerConnect(OneSession)
  \/ HandlerReceive(OneSession, MaxSharedTurns)
  \/ HandlerScreen(OneSession)
  \/ HandlerFail(OneSession)
  \/ HandlerRender(OneSession)
  \/ HandlerRespond(OneSession, MaxSharedTurns)
  \/ HandlerFinish(OneSession)
  \/ EmitTasks

SpecShared == Init /\ [][SharedNext]_vars

\* One connection, whose client says any of the speech messages.
OneConnection == {"c1"}

SpeechReceive ==
  \E c \in OneConnection, m \in SpeechMessages : ReceiveSpeech(c, m, MaxSpeechTurns)

SpeechNext ==
  \/ HandlerConnect(OneConnection)
  \/ SpeechReceive
  \/ HandlerAlert(OneConnection)
  \/ HandlerScreen(OneConnection)
  \/ HandlerFail(OneConnection)
  \/ HandlerRender(OneConnection)
  \/ HandlerRespond(OneConnection, MaxSpeechTurns)
  \/ HandlerFinish(OneConnection)
  \/ HandlerError(OneConnection)
  \/ HandlerDisconnect(OneConnection)
  \/ EmitTasks

SpecSpeech == Init /\ [][SpeechNext]_vars


\* ------------------------------------------------ sessions.py: end_session
\* What the database service can be when the endpoint runs: connected, never
\* connected (DatabaseService.connect failed at start-up and left async_session
\* None) or connected with a failing query.
DatabaseStates == {"connected", "not_connected", "failing"}
\* KafkaProducerService.send_event: sent, skipped (not connected) or produce
\* failing; in all three it returns without raising.
KafkaStates == {"sent", "not_connected", "failing"}

\* POST /sessions/{session_id}/end.  The three steps are in one try: the
\* statement that raises ends it, the except clause answers status 500.
end_session(session_id, kafka, db) ==
  LET sent == kafka \in KafkaStates
      updated == sent /\ db = "connected"
  IN  /\ sessions' = IF updated
                     THEN [s \in DOMAIN sessions \ {session_id} |-> sessions[s]]
                     ELSE sessions
      /\ emitted' = << >>
      /\ call' = [op |-> "end_session", session_id |-> session_id,
                  kafka |-> kafka, db |-> db,
                  status |-> IF updated THEN 200 ELSE 500]
      /\ published' = NothingPublished
      /\ UNCHANGED <<active_connections, admin>>
      /\ UNCHANGED <<current_turn_number, handler_vars>>

EndEndpoint(cs) ==
  \E c \in cs, kafka \in KafkaStates, db \in DatabaseStates :
    end_session(SessionOf[c], kafka, db)

\* One websocket of one session and the end-session endpoint of that session.
MaxEndTurns == 2
EndReceive ==
  \E c \in OneConnection, m \in HandlerMessages : ReceiveSpeech(c, m, MaxEndTurns)

EndNext ==
  \/ HandlerConnect(OneConnection)
  \/ EndReceive
  \/ HandlerScreen(OneConnection)
  \/ HandlerFail(OneConnection)
  \/ HandlerRender(OneConnection)
  \/ HandlerRespond(OneConnection, MaxEndTurns)
  \/ HandlerFinish(OneConnection)
  \/ HandlerDisconnect(OneConnection)
  \/ EndEndpoint(OneConnection)
  \/ EmitTasks

SpecEnd == Init /\ [][EndNext]_vars

\* ------------------------------------------------------------- admin.py
\* The part of every admin step that is not the admin module.
AdminStep(op, arg) ==
  /\ emitted' = << >>
  /\ call' = [op |-> op, arg |-> arg]
  /\ published' = NothingPublished
  /\ UNCHANGED <<sessions, current_turn_number, handler_vars, active_connections>>

\* admin_events_websocket up to its first receive_text: accept, add to
\* _admin_connections, send the 20 most recent events.
AdminConnect(d) ==
  /\ admin.sockets[d] = "new"
  /\ admin' = [admin EXCEPT
                 !.sockets[d] = "open",
                 !.connections = @ \cup {d},
                 !.delivered[d] = @ \cup {admin.recent_events[i] :
                                            i \in 1..Min2(20, Len(admin.recent_events))}]
  /\ AdminStep("admin_events_websocket", d)

\* The dashboard goes away: sends to its websocket raise from now on, the
\* handler is still suspended in receive_text.
AdminBreak(d) ==
  /\ admin.sockets[d] = "open"
  /\ admin' = [admin EXCEPT !.sockets[d] = "broken"]
  /\ AdminStep("peer_gone", d)

\* receive_text raises WebSocketDisconnect in the handler:
\* _admin_connections.discard(websocket).
AdminDisconnect(d) ==
  /\ admin.sockets[d] \in {"open", "broken"}
  /\ admin' = [admin EXCEPT !.sockets[d] = "closed", !.connections = @ \ {d}]
  /\ AdminStep("discard", d)

\* add_event_to_store(event) inside the running loop.
add_event_to_store(event) ==
  /\ event \notin DOMAIN admin.tasks
  /\ admin' = [admin EXCEPT
                 !.recent_events = Take(<<event>> \o @, MAX_EVENTS),
                 !.tasks = (event :> BroadcastTask) @@ @]
  /\ AdminStep("add_event_to_store", event)

\* broadcast_event(event) from being scheduled to its first send.
BroadcastStart(event) ==
  /\ event \in DOMAIN admin.tasks
  /\ admin.tasks[event].pc = "created"
  /\ IF admin.connections = {}
     THEN admin' = [admin EXCEPT !.tasks[event].pc = "done"]
     ELSE \E ws \in admin.connections :
            admin' = SendJson([admin EXCEPT
                                 !.tasks[event].pc = "iterating",
                                 !.tasks[event].size = Cardinality(admin.connections),
                                 !.tasks[event].start = admin.connections],
                              event, ws)
  /\ AdminStep("broadcast_event", event)

\* The task resumes after a send and the for statement asks the set
\* iterator for the next websocket: the iterator raises RuntimeError when
\* the size of the set is no longer the size it started with.
BroadcastRaise(event) ==
  /\ event \in DOMAIN admin.tasks
  /\ admin.tasks[event].pc = "iterating"
  /\ Cardinality(admin.connections) # admin.tasks[event].size
  /\ admin' = [admin EXCEPT !.tasks[event].pc = "raised"]
  /\ AdminStep("broadcast_event", event)

\* The iterator hands out a websocket not yet visited and the task sends.
\* In a set of the same size whose members changed, a member added since
\* the start is visited or not, depending on its slot in the table.
BroadcastNext(event) ==
  /\ event \in DOMAIN admin.tasks
  /\ admin.tasks[event].pc = "iterating"
  /\ Cardinality(admin.connections) = admin.tasks[event].size
  /\ \E ws \in admin.connections \ admin.tasks[event].visited :
       admin' = SendJson(admin, event, ws)
  /\ AdminStep("broadcast_event", event)

\* The iterator is exhausted:
\* _admin_connections.difference_update(disconnected).
BroadcastEnd(event) ==
  /\ event \in DOMAIN admin.tasks
  /\ admin.tasks[event].pc = "iterating"
  /\ Cardinality(admin.connections) = admin.tasks[event].size
  /\ (admin.connections \cap admin.tasks[event].start) \subseteq admin.tasks[event].visited
  /\ admin' = [admin EXCEPT !.tasks[event].pc = "done",
                            !.connections = @ \ admin.tasks[event].disconnected]
  /\ AdminStep("broadcast_event", event)

AdminNext ==
  \/ \E d \in Dashboards : AdminConnect(d)
  \/ \E d \in Dashboards : AdminBreak(d)
  \/ \E d \in Dashboards : AdminDisconnect(d)
  \/ \E e \in AdminEvents : add_event_to_store(e)
  \/ \E e \in AdminEvents : BroadcastStart(e)
  \/ \E e \in AdminEvents : BroadcastRaise(e)
  \/ \E e \in AdminEvents : BroadcastNext(e)
  \/ \E e \in AdminEvents : BroadcastEnd(e)

SpecAdmin == Init /\ [][AdminNext]_vars

\* ---------------------------------------------------------- analyzer.py
\* A request to GeminiAnalyzer.analyze.  The analyzer keeps nothing from one
\* request to the next, so one request is followed from start-up.
Analyze ==
  \E answers \in ModelAnswers :
    /\ call.op = "init"
    /\ call' = [op |-> "analyze", answers |-> answers, result |-> analyze(answers)]
    /\ emitted' = << >>
    /\ published' = NothingPublished
    /\ UNCHANGED <<sessions, current_turn_number, handler_vars, active_connections, admin>>

SpecAnalyze == Init /\ [][Analyze]_vars

\* ---------------------------------------------------------- evaluator.py
\* A call of SafetyEvaluator.evaluate(text).  The evaluator keeps nothing from
\* one call to the next, so one call is followed from start-up.
Evaluate ==
  \E text \in SafetyTexts :
    /\ call.op = "init"
    /\ call' = [op |-> "evaluate", text |-> text, result |-> evaluate(text)]
    /\ emitted' = << >>
    /\ published' = NothingPublished
    /\ UNCHANGED <<sessions, current_turn_number, handler_vars, active_connections, admin>>

SpecSafety == Init /\ [][Evaluate]_vars

\* ------------------------------------------------- to_context_string
\* A collaborator fetches the memory of the session and renders it
\* (responder.py 306-307, admin.py 242).
ToContextString(session_id) ==
  /\ sessions' = IF session_id \in DOMAIN sessions THEN sessions
                 ELSE (session_id :> ConversationMemory) @@ sessions
  /\ emitted' = << >>
  /\ call' = [op |-> "to_context_string", session_id |-> session_id,
              topics |-> weighted_topics(MemoryOf(sessions, session_id))]
  /\ published' = NothingPublished
  /\ UNCHANGED <<current_turn_number, handler_vars, active_connections, admin>>

MaxContextTurns == 11
ContextUpdate ==
  \E s \in SessionIds, x \in SalienceTurns, r \in Responses, t \in Techniques :
    UpdateMemory(s, x.message, x.emotion, One, r, t, MaxContextTurns)

ContextRead == \E s \in SessionIds : ToContextString(s)

ContextNext == ContextUpdate \/ ContextRead

SpecContext == Init /\ [][ContextNext]_vars

\* ------------------------------------------------- the admin event store
\* RunEmitTasks with the admin event store followed: emit_memory_event hands
\* each event it builds to add_event_to_store, which inserts it at the front
\* of _recent_events (no dashboard is connected, so the broadcast returns at
\* once), before it hands the event to the sink.
RunEmitTasksStoring(sink) ==
  LET events == [i \in 1..Len(Head(pending).calls) |->
                   emit_memory_event(Head(pending).calls[i].event_type,
                                     Head(pending).calls[i].session_id,
                                     current_session_id, current_turn_number)]
  IN  /\ pending # << >>
      /\ published' =
           [op |-> Head(pending).op,
            session_id |-> Head(pending).session_id,
            turn_number |-> Head(pending).turn_number,
            events |-> events,
            delivery |-> Delivery(sink)]
      /\ admin' = [admin EXCEPT
                     !.recent_events =
                        Take([i \in 1..Len(events) |-> events[Len(events) + 1 - i]] \o @,
                             MAX_EVENTS)]
      /\ pending' = Tail(pending)
      /\ emitted' = << >>
      /\ call' = [op |-> "emit_memory_event"]
      /\ UNCHANGED <<sessions, current_turn_number, current_session_id, handlers>>
      /\ UNCHANGED active_connections

EmitTasksStoring == \E sink \in SinkStates : RunEmitTasksStoring(sink)

\* One websocket of one session, which may disconnect and connect again; the
\* user's messages include one the safety evaluation stops.
MaxCorrelationTurns == 2
CorrelationReceive ==
  \E c \in OneConnection, m \in SpeechMessages : ReceiveSpeech(c, m, MaxCorrelationTurns)

CorrelationNext ==
  \/ HandlerConnect(OneConnection)
  \/ CorrelationReceive
  \/ HandlerAlert(OneConnection)
  \/ HandlerScreen(OneConnection)
  \/ HandlerFail(OneConnection)
  \/ HandlerRender(OneConnection)
  \/ HandlerRespond(OneConnection, MaxCorrelationTurns)
  \/ HandlerFinish(OneConnection)
  \/ HandlerDisconnect(OneConnection)
  \/ EmitTasksStoring

SpecCorrelation == Init /\ [][CorrelationNext]_vars

\* Two websockets of one session, either of which may disconnect and connect
\* again while the other is served.
MaxRegistryTurns == 1
RegistryNext ==
  \/ HandlerConnect(OneSession)
  \/ HandlerReceive(OneSession, MaxRegistryTurns)
  \/ HandlerScreen(OneSession)
  \/ HandlerFail(OneSession)
  \/ HandlerRender(OneSession)
  \/ HandlerRespond(OneSession, MaxRegistryTurns)
  \/ HandlerFinish(OneSession)
  \/ HandlerDisconnect(OneSession)
  \/ EmitTasks

SpecRegistry == Init /\ [][RegistryNext]_vars
\* ------------------------------------------------------------ the claims
\* The step is a turn update of session s.
IsUpdate(s) == call'.op = "update_memory" /\ call'.session_id = s
\* The memory of s the step starts from and the one it leaves.
Pre(s) == MemoryOf(sessions, s)
Post(s) == sessions'[s]
\* The latest operation was a turn update.
Updated == call.op = "update_memory"
\* An event of the latest operation has this type.
Emitted(event_type) == \E i \in 1..Len(emitted) : emitted[i].event_type = event_type

PhaseIndex(phase) == CHOOSE i \in 1..Len(ConversationPhase) : ConversationPhase[i] = phase

\* C1: every turn update leaves the phase where it is or moves it to its
\* immediate successor in OPENING < EXPLORATION < DEEPENING < TECHNIQUE <
\* INTEGRATION < CLOSING; CLOSING is never left.
C1_PhaseAdvancesByOne ==
  [][\A s \in SessionIds :
       IsUpdate(s) =>
         LET a == PhaseIndex(Pre(s).phase)
             b == PhaseIndex(Post(s).phase)
         IN  /\ b = a \/ b = a + 1
             /\ b <= Len(ConversationPhase)
             /\ Pre(s).phase = "closing" => Post(s).phase = "closing"]_vars

\* A turn update ran in CLOSING, reached through every phase, and stayed there.
C1_Witness ==
  /\ Updated
  /\ sessions["s1"].phase = "closing"
  /\ sessions["s1"].exchanges_in_phase >= 1
  /\ call.user_message \in SignalsOf("integration")

\* The message contains a trigger phrase of phase, compared without case.
ContainsTriggerIgnoringCase(phase, message) ==
  \E phrase \in SignalsOf(phase) : In(Lower(phrase), Lower(message))

\* C2: in a non-terminal phase a turn update advances the phase exactly when
\* the exchange gate is met, counting this exchange, and the message contains
\* one of the phase's trigger phrases, compared without case.
C2_TransitionIffGateAndTrigger ==
  [][\A s \in SessionIds :
       (IsUpdate(s) /\ Pre(s).phase # "closing") =>
         ((Post(s).phase # Pre(s).phase)
            <=> /\ Pre(s).exchanges_in_phase + 1
                     >= PHASE_TRANSITION_SIGNALS[Pre(s).phase].min_exchanges
                /\ ContainsTriggerIgnoringCase(Pre(s).phase, call'.user_message))]_vars

\* The entry of key in dict d was decayed by factor in this step: kept with
\* exactly weight * factor, or gone when that is below the threshold.
DecayedOnce(d, after, key, factor) ==
  LET w == Times(DictGet(d, key, Zero), factor)
  IN  IF Less(w, Frac(2, 10))
      THEN key \notin DictKeys(after)
      ELSE key \in DictKeys(after) /\ DictGet(after, key, Zero) = w

\* C3: in a turn update every emotion other than the observed one goes from
\* weight w to exactly w * 0.7, or is removed when that is below 0.2, and every
\* topic not extracted from the message goes to exactly w * 0.85, or is removed
\* when that is below 0.2.
C3_DecayOncePerTurn ==
  [][\A s \in SessionIds :
       IsUpdate(s) =>
         /\ \A e \in DictKeys(Pre(s).emotion_weights) \ {call'.emotion} :
              DecayedOnce(Pre(s).emotion_weights, Post(s).emotion_weights, e, <<7, 10>>)
         /\ \A t \in DictKeys(Pre(s).topic_weights)
                       \ SeqRange(extract_topics(call'.user_message)) :
              DecayedOnce(Pre(s).topic_weights, Post(s).topic_weights, t, <<85, 100>>)]_vars

\* A turn removed an emotion it did not observe and decayed a topic it did not
\* extract, which stays with a weight below 1.0.
C3_Witness ==
  /\ Updated
  /\ \E i \in 1..Len(emitted) :
       /\ emitted[i].event_type = "memory.emotion.faded"
       /\ emitted[i].data.emotion # call.emotion
  /\ \E j \in 1..Len(sessions["s1"].topic_weights) :
       Less(sessions["s1"].topic_weights[j].v, Frac(1, 1))
  /\ extract_topics(call.user_message) = << >>

\* C4: the observed emotion e with intensity i gets max(p*0.6 + i*0.4, i*0.8)
\* when it still has weight p after this turn's decay, which is at least i*0.8
\* and p*0.6; it gets i*0.9 when it has no weight after the decay.
C4_BlendOrNew ==
  [][\A s \in SessionIds :
       IsUpdate(s) =>
         LET e == call'.emotion
             i == call'.intensity
             p == Times(DictGet(Pre(s).emotion_weights, e, Zero), <<7, 10>>)
             present == e \in DictKeys(Pre(s).emotion_weights) /\ ~Less(p, Frac(2, 10))
             new == DictGet(Post(s).emotion_weights, e, Zero)
         IN  /\ e \in DictKeys(Post(s).emotion_weights)
             /\ IF present
                THEN /\ new = NumMax(NumAdd(Times(p, <<6, 10>>), Times(i, <<4, 10>>)),
                                     Times(i, <<8, 10>>))
                     /\ Leq(Times(i, <<8, 10>>), new)
                     /\ Leq(Times(p, <<6, 10>>), new)
                ELSE new = Times(i, <<9, 10>>)]_vars

\* An emotion was observed again while it still had weight, and the blend of
\* history and intensity was the greater of the two candidates.
C4_Witness ==
  /\ Updated
  /\ \E k \in 1..Len(emitted) :
       /\ emitted[k].event_type = "memory.emotion.detected"
       /\ ~emitted[k].data.is_new
       /\ Less(Times(call.intensity, <<8, 10>>),
               DictGet(sessions["s1"].emotion_weights, call.emotion, Zero))

\* C5: every entry of emotion_weights and topic_weights has weight >= 0.2.
C5_NoEntryBelowThreshold ==
  \A s \in DOMAIN sessions :
    /\ \A i \in 1..Len(sessions[s].emotion_weights) :
         ~Less(sessions[s].emotion_weights[i].v, Frac(2, 10))
    /\ \A i \in 1..Len(sessions[s].topic_weights) :
         ~Less(sessions[s].topic_weights[i].v, Frac(2, 10))

\* C6: every weight of emotion_weights and topic_weights is in [0, 1].
C6_WeightsInUnitInterval ==
  \A s \in DOMAIN sessions :
    /\ \A i \in 1..Len(sessions[s].emotion_weights) :
         /\ Leq(Frac(0, 1), sessions[s].emotion_weights[i].v)
         /\ Leq(sessions[s].emotion_weights[i].v, Frac(1, 1))
    /\ \A i \in 1..Len(sessions[s].topic_weights) :
         /\ Leq(Frac(0, 1), sessions[s].topic_weights[i].v)
         /\ Leq(sessions[s].topic_weights[i].v, Frac(1, 1))

\* Intensity 1.0 was observed for an emotion that already had weight, in a turn
\* that also set a topic to 1.0.
C6_Witness ==
  /\ Updated
  /\ call.intensity = Frac(1, 1)
  /\ \E k \in 1..Len(emitted) :
       emitted[k].event_type = "memory.emotion.detected" /\ ~emitted[k].data.is_new
  /\ \E i \in 1..Len(sessions["s1"].topic_weights) :
       sessions["s1"].topic_weights[i].v = Frac(1, 1)

\* C7: every turn update adds exactly 1 to total_exchanges and appends exactly
\* one journal entry, whatever turn number the caller has set; no other
\* operation on the memory changes either, and total_exchanges is the length
\* of emotion_journey in every state.
C7_EveryCallIsTheNextTurn ==
  /\ [](\A s \in DOMAIN sessions :
          sessions[s].total_exchanges = Len(sessions[s].emotion_journey))
  /\ [][\A s \in SessionIds :
          s \in DOMAIN sessions' =>
            IF IsUpdate(s)
            THEN /\ Post(s).total_exchanges = Pre(s).total_exchanges + 1
                 /\ Len(Post(s).emotion_journey) = Len(Pre(s).emotion_journey) + 1
                 /\ SubSeq(Post(s).emotion_journey, 1, Len(Pre(s).emotion_journey))
                      = Pre(s).emotion_journey
            ELSE /\ Post(s).total_exchanges = Pre(s).total_exchanges
                 /\ Post(s).emotion_journey = Pre(s).emotion_journey]_vars

\* The third turn update of a memory ran with the caller's turn number at 1.
C7_Witness ==
  /\ Updated
  /\ sessions["s1"].total_exchanges = 3
  /\ current_turn_number = 1

\* C8: a turn update sets exchanges_in_phase to 0 exactly when it changes the
\* phase and adds 1 to it otherwise; no other operation changes it.
C8_ResetExactlyOnTransition ==
  [][\A s \in SessionIds :
       s \in DOMAIN sessions' =>
         IF IsUpdate(s)
         THEN /\ (Post(s).exchanges_in_phase = 0) <=> (Post(s).phase # Pre(s).phase)
              /\ Post(s).phase = Pre(s).phase =>
                   Post(s).exchanges_in_phase = Pre(s).exchanges_in_phase + 1
         ELSE Post(s).exchanges_in_phase = Pre(s).exchanges_in_phase]_vars

\* A turn update changed the phase.
C8_Witness ==
  /\ Updated
  /\ Emitted("memory.phase.transitioned")
  /\ sessions["s1"].exchanges_in_phase = 0
  /\ sessions["s1"].total_exchanges >= 1

\* The sequence has no element twice.
NoDuplicates(seq) == \A i, j \in 1..Len(seq) : seq[i] = seq[j] => i = j

C10_StateUpdatedEveryTurn ==
  [][\A s \in SessionIds :
       IsUpdate(s) =>
         /\ \E k \in 1..Len(emitted') : emitted'[k].event_type = "memory.state.updated"
         /\ \A k \in 1..Len(emitted') :
              emitted'[k].event_type = "memory.state.updated" =>
                /\ emitted'[k].data.exchange_number = Post(s).total_exchanges
                /\ emitted'[k].session_id = s]_vars

\* The second turn update of a memory emitted its state event.
C10_Witness ==
  /\ Updated
  /\ sessions["s1"].total_exchanges = 2
  /\ Emitted("memory.state.updated")

\* ------------------------------------------------ the handlers' claims
\* C11: every event published for the turn update of session S at turn N,
\* the decay and fade events among them, carries session_id S, turn_number N
\* and correlation_id S-turnN, however the handlers interleave.
C11_EventsCarryTheirTurn ==
  published.op = "update_memory" =>
    \A i \in 1..Len(published.events) :
      /\ published.events[i].session_id = published.session_id
      /\ published.events[i].turn_number = published.turn_number
      /\ published.events[i].correlation_id =
           <<published.session_id, "-turn", published.turn_number>>

\* C12: whatever the state of the event sink (working, failing, absent or
\* slow), update_memory and log_exercise_completion return to their caller
\* without failing or waiting and leave the memory they leave with a working
\* sink; running the emit tasks changes no memory.
C12_SinkNeverStopsAnUpdate ==
  [][/\ call'.op = "update_memory" =>
          /\ call'.result = "returned"
          /\ sessions'[call'.session_id] =
               update_memory(MemoryOf(sessions, call'.session_id), call'.session_id,
                             call'.user_message, call'.emotion, call'.intensity,
                             call'.ai_response, call'.technique_used).memory
     /\ call'.op = "log_exercise_completion" =>
          /\ call'.result = "returned"
          /\ sessions'[call'.session_id] =
               log_exercise_completion(MemoryOf(sessions, call'.session_id),
                                       call'.session_id, call'.exercise_type,
                                       call'.outcome, call'.user_feedback).memory
     /\ call'.op = "emit_memory_event" => sessions' = sessions]_vars

\* An update that returned while the sink was failing, its tasks not yet run.
C12_Witness ==
  /\ call.op = "update_memory"
  /\ call.sink = "failing"
  /\ call.result = "returned"
  /\ sessions[call.session_id].total_exchanges = 1
  /\ pending # << >>

\* The weight of key in dict d after one decay by factor: 0 when it fades.
AfterDecay(d, key, factor) ==
  IF Less(Times(DictGet(d, key, Zero), factor), Frac(2, 10)) THEN Zero
  ELSE Times(DictGet(d, key, Zero), factor)

\* The step took the memory from pre to post by one whole turn update with
\* the arguments in c: counters, journal entry, decay and blend together.
WholeTurn(pre, post, c) ==
  /\ post.total_exchanges = pre.total_exchanges + 1
  /\ Len(post.emotion_journey) = Len(pre.emotion_journey) + 1
  /\ post.emotion_journey[Len(post.emotion_journey)].emotion = c.emotion
  /\ post.emotion_journey[Len(post.emotion_journey)].intensity = c.intensity
  /\ DictGet(post.emotion_weights, c.emotion, Zero) =
       BlendedWeight(AfterDecay(pre.emotion_weights, c.emotion, <<7, 10>>), c.intensity)
  /\ \A e \in DictKeys(pre.emotion_weights) \ {c.emotion} :
       DecayedOnce(pre.emotion_weights, post.emotion_weights, e, <<7, 10>>)

\* C13: a turn update is one step for every other operation on the same
\* memory: between two steps of the handlers a memory's weights, counters and
\* journal change only by a whole turn update of that session, so decay is
\* never seen without the turn's journal entry and blend.
C13_TurnUpdateIsOneStep ==
  [][\A s \in HandlerSessions :
       /\ (call'.op = "update_memory" /\ call'.session_id = s)
            => WholeTurn(MemoryOf(sessions, s), MemoryOf(sessions', s), call')
       /\ ((s \in DOMAIN sessions /\ s \in DOMAIN sessions') /\
           \/ sessions'[s].emotion_weights # sessions[s].emotion_weights
           \/ sessions'[s].topic_weights # sessions[s].topic_weights
           \/ sessions'[s].emotion_journey # sessions[s].emotion_journey
           \/ sessions'[s].total_exchanges # sessions[s].total_exchanges)
            => (call'.op = "update_memory" /\ call'.session_id = s)]_vars

\* The second turn update of the session has run, decaying and blending the
\* weight of the first, while the other connection of the same session has
\* rendered the memory and not yet updated it.
C13_Witness ==
  /\ call.op = "update_memory"
  /\ sessions["s1"].total_exchanges = 2
  /\ DictGet(sessions["s1"].emotion_weights, "anxiety", Zero) = Frac(48, 100)
  /\ \E c \in OneSession : handlers[c].pc = "generating"

\* C14: however the handlers interleave get_or_create_memory, update_memory,
\* log_exercise_completion and clear_session, the registry maps an id to one
\* memory: an operation on an id that has a memory works on that memory and
\* stores no other, get_or_create_memory on such an id changes nothing, an
\* id without a memory gets a new one, and only clear_session removes one.
C14_OneMemoryPerSession ==
  [][\A s \in HandlerSessions :
       /\ (call'.op = "get_or_create_memory" /\ call'.session_id = s)
            => IF s \in DOMAIN sessions THEN sessions' = sessions
               ELSE sessions' = (s :> ConversationMemory) @@ sessions
       /\ (call'.op = "update_memory" /\ call'.session_id = s /\ s \in DOMAIN sessions)
            => /\ sessions'[s].total_exchanges = sessions[s].total_exchanges + 1
               /\ sessions'[s].exercises_completed = sessions[s].exercises_completed
               /\ Len(sessions'[s].emotion_journey) = Len(sessions[s].emotion_journey) + 1
       /\ (call'.op = "log_exercise_completion" /\ call'.session_id = s
             /\ s \in DOMAIN sessions)
            => /\ Len(sessions'[s].exercises_completed)
                    = Len(sessions[s].exercises_completed) + 1
               /\ sessions'[s].total_exchanges = sessions[s].total_exchanges
               /\ sessions'[s].emotion_weights = sessions[s].emotion_weights
       /\ (s \in DOMAIN sessions /\ s \notin DOMAIN sessions')
            => (call'.op = "clear_session" /\ call'.session_id = s)
       /\ (s \notin DOMAIN sessions /\ s \in DOMAIN sessions')
            => (call'.session_id = s /\ call'.op \in {"get_or_create_memory",
                  "update_memory", "log_exercise_completion"})]_vars

\* get_or_create_memory ran for a session whose memory holds an exercise and
\* a turn, while the other session has been cleared or never used.
C14_Witness ==
  /\ call.op = "get_or_create_memory"
  /\ call.session_id = "s1"
  /\ "s1" \in DOMAIN sessions
  /\ sessions["s1"].total_exchanges = 1
  /\ Len(sessions["s1"].exercises_completed) = 1
  /\ "s2" \notin DOMAIN sessions
  /\ handlers["c2"].pc = "receiving"

\* C15: a turn update, an exercise log or a clear of one session leaves the
\* memory of every other session as it was, whatever the handlers' order.
C15_SessionsAreIndependent ==
  [][\A a \in HandlerSessions, b \in HandlerSessions :
       (/\ a # b
        /\ call'.op \in {"update_memory", "log_exercise_completion", "clear_session"}
        /\ call'.session_id = a)
         => /\ b \in DOMAIN sessions <=> b \in DOMAIN sessions'
            /\ b \in DOMAIN sessions => sessions'[b] = sessions[b]]_vars

\* One session was cleared while the other holds an exercise and a turn.
C15_Witness ==
  /\ call.op = "clear_session"
  /\ call.session_id = "s1"
  /\ "s1" \notin DOMAIN sessions
  /\ "s2" \in DOMAIN sessions
  /\ sessions["s2"].total_exchanges = 1
  /\ Len(sessions["s2"].exercises_completed) = 1

\* The message contains a breakthrough signal phrase, compared without case.
HasBreakthroughSignal(message) ==
  \E i \in 1..Len(breakthrough_signals) :
    In(Lower(breakthrough_signals[i]), Lower(message))

\* C16: a turn update appends a breakthrough exactly when the message
\* contains a signal phrase (without case) and the emotion is one of relief,
\* calm, gratitude, hopeful, curious, peaceful, content; 'I realize this is my
\* fault' records none with anger and one with relief.
C16_BreakthroughIffSignalAndPositive ==
  [][\A s \in SessionIds :
       IsUpdate(s) =>
         /\ IF /\ HasBreakthroughSignal(call'.user_message)
               /\ call'.emotion \in {"relief", "calm", "gratitude", "hopeful",
                                     "curious", "peaceful", "content"}
            THEN Len(Post(s).breakthroughs) = Len(Pre(s).breakthroughs) + 1
            ELSE Post(s).breakthroughs = Pre(s).breakthroughs
         /\ call'.user_message = <<"I"," ","r","e","a","l","i","z","e"," ","t","h","i","s"," ","i","s"," ","m","y"," ","f","a","u","l","t">> =>
              /\ call'.emotion = "anger" =>
                   Post(s).breakthroughs = Pre(s).breakthroughs
              /\ call'.emotion = "relief" =>
                   Len(Post(s).breakthroughs) = Len(Pre(s).breakthroughs) + 1]_vars

\* 'I realize this is my fault' was said in anger, recording nothing, after
\* the same message with relief had recorded a breakthrough.
C16_Witness ==
  /\ Updated
  /\ call.user_message = <<"I"," ","r","e","a","l","i","z","e"," ","t","h","i","s"," ","i","s"," ","m","y"," ","f","a","u","l","t">>
  /\ call.emotion = "anger"
  /\ sessions["s1"].total_exchanges = 2
  /\ Len(sessions["s1"].breakthroughs) = 1
  /\ sessions["s1"].emotion_journey[1].emotion = "relief"

\* The latest operation was a closure check of the memory of session s.
ClosureChecked(s) == call.op = "check_session_closure" /\ call.session_id = s

\* The tests of closure readiness other than the one of the emotion.
ClosureGates(memory, intensity) ==
  /\ memory.total_exchanges >= 4
  /\ Leq(Frac(5, 10), intensity)
  /\ \/ Len(memory.breakthroughs) >= 1
     \/ memory.phase \in {"technique", "integration", "closing"}

ConflictTypes(events) ==
  {events[i].data.conflict_type :
     i \in {j \in 1..Len(events) : events[j].event_type = "memory.conflict.detected"}}

\* C18: from the second exchange on a turn update emits a
\* sudden_polarity_shift conflict exactly when the current emotion is positive
\* and the journal entry before it is a negative emotion with intensity > 0.6,
\* and a mixed_resolution conflict exactly when the current emotion is
\* gratitude and some negative emotion's weight after this turn's decay
\* exceeds 0.4; the first exchange emits no conflict event.
C18_ConflictEvents ==
  [][\A s \in SessionIds :
       IsUpdate(s) =>
         IF Pre(s).total_exchanges = 0
         THEN ConflictTypes(emitted') = {}
         ELSE /\ "sudden_polarity_shift" \in ConflictTypes(emitted')
                   <=> /\ call'.emotion \in positive_emotions
                       /\ Pre(s).emotion_journey[Len(Pre(s).emotion_journey)].emotion
                            \in negative_emotions
                       /\ Less(Frac(6, 10),
                               Pre(s).emotion_journey[Len(Pre(s).emotion_journey)].intensity)
              /\ "mixed_resolution" \in ConflictTypes(emitted')
                   <=> /\ call'.emotion = "gratitude"
                       /\ \E e \in DictKeys(Pre(s).emotion_weights) \cap negative_emotions :
                            Less(Frac(4, 10),
                                 AfterDecay(Pre(s).emotion_weights, e, <<7, 10>>))
              /\ ConflictTypes(emitted') \subseteq
                   {"sudden_polarity_shift", "mixed_resolution"}]_vars

\* Gratitude right after anxiety of intensity 0.62: a polarity shift, and no
\* mixed resolution because the decayed weight 0.3906 is not above 0.4.
C18_Witness ==
  /\ Updated
  /\ call.emotion = "gratitude"
  /\ sessions["s1"].total_exchanges = 2
  /\ sessions["s1"].emotion_journey[1] =
       [emotion |-> "anxiety", intensity |-> Frac(62, 100), exchange |-> 1]
  /\ ConflictTypes(emitted) = {"sudden_polarity_shift"}

\* C19: the dominant emotion is the entry of emotion_weights with the
\* greatest weight, the one inserted first among several greatest, and
\* ('neutral', 0.5) when there is no entry.
C19_DominantIsFirstGreatest ==
  \A s \in SessionIds :
    (call.op = "get_dominant_emotion" /\ call.session_id = s) =>
      IF sessions[s].emotion_weights = << >>
      THEN call.result = [emotion |-> "neutral", weight |-> Frac(5, 10)]
      ELSE \E i \in 1..Len(sessions[s].emotion_weights) :
             /\ call.result = [emotion |-> sessions[s].emotion_weights[i].k,
                               weight |-> sessions[s].emotion_weights[i].v]
             /\ \A j \in 1..Len(sessions[s].emotion_weights) :
                  Leq(sessions[s].emotion_weights[j].v, call.result.weight)
             /\ \A j \in 1..(i - 1) :
                  Less(sessions[s].emotion_weights[j].v, call.result.weight)

\* Gratitude, inserted first, and anxiety hold the same weight 0.63, and
\* gratitude is the dominant emotion.
C19_Witness ==
  /\ call.op = "get_dominant_emotion"
  /\ Len(sessions["s1"].emotion_weights) = 2
  /\ sessions["s1"].emotion_weights[1].k = "gratitude"
  /\ sessions["s1"].emotion_weights[1].v = sessions["s1"].emotion_weights[2].v
  /\ call.result.emotion = "gratitude"

FadeNamed(events, event_type, field, key) ==
  \E i \in 1..Len(events) :
    /\ events[i].event_type = event_type
    /\ events[i].data[field] = key

\* A decay event of the given type in events lists key among its entries.
DecayNamed(events, event_type, field, key) ==
  \E i \in 1..Len(events) :
    /\ events[i].event_type = event_type
    /\ \E j \in 1..Len(events[i].data[field]) : events[i].data[field][j].k = key

\* Every entry of weight map d that the decay pass by factor changes is
\* reported in events: by a decay event when kept, by a fade event when not.
DecayReported(d, factor, events, decayed_type, decayed_field, faded_type, faded_field) ==
  \A i \in 1..Len(d) :
    IF Less(Times(d[i].v, factor), MIN_RELEVANCE_THRESHOLD)
    THEN FadeNamed(events, faded_type, faded_field, d[i].k)
    ELSE Times(d[i].v, factor) # d[i].v
           => DecayNamed(events, decayed_type, decayed_field, d[i].k)

\* C21: every change the decay pass of a turn makes to a salience weight is
\* reported by an event of that turn, for emotions and topics alike: a decay
\* event names a weight that is reduced and kept, a fade event names an entry
\* that is removed.
C21_DecayChangesReported ==
  [][\A s \in SessionIds :
       IsUpdate(s) =>
         /\ DecayReported(Pre(s).emotion_weights, EMOTION_DECAY_FACTOR, emitted',
                          "memory.emotion.decayed", "decayed_emotions",
                          "memory.emotion.faded", "emotion")
         /\ DecayReported(Pre(s).topic_weights, TOPIC_DECAY_FACTOR, emitted',
                          "memory.topic.decayed", "decayed_topics",
                          "memory.topic.faded", "topic")]_vars

\* The same for the emotions alone, which the code reports in full.
EmotionDecayReported ==
  [][\A s \in SessionIds :
       IsUpdate(s) =>
         DecayReported(Pre(s).emotion_weights, EMOTION_DECAY_FACTOR, emitted',
                       "memory.emotion.decayed", "decayed_emotions",
                       "memory.emotion.faded", "emotion")]_vars

\* Sequence a is the beginning of sequence b, entry for entry.
IsPrefix(a, b) == Len(a) <= Len(b) /\ SubSeq(b, 1, Len(a)) = a

\* The step is a turn update or an exercise log on the memory of session s.
IsUpdateOrLog(s) ==
  /\ call'.op \in {"update_memory", "log_exercise_completion"}
  /\ call'.session_id = s

\* C22: over turn updates and exercise logs on one memory, emotion_journey,
\* user_topics, key_insights, breakthroughs and exercises_completed change
\* only by appending at the end (every earlier entry stays, unchanged and in
\* its position), and no count in techniques_used ever decreases.
C22_JournalsOnlyGrow ==
  [][\A s \in SessionIds :
       IsUpdateOrLog(s) =>
         /\ IsPrefix(Pre(s).emotion_journey, Post(s).emotion_journey)
         /\ IsPrefix(Pre(s).user_topics, Post(s).user_topics)
         /\ IsPrefix(Pre(s).key_insights, Post(s).key_insights)
         /\ IsPrefix(Pre(s).breakthroughs, Post(s).breakthroughs)
         /\ IsPrefix(Pre(s).exercises_completed, Post(s).exercises_completed)
         /\ \A t \in DictKeys(Pre(s).techniques_used) :
              DictGet(Post(s).techniques_used, t, 0)
                >= DictGet(Pre(s).techniques_used, t, 0)]_vars

\* Three turns and two exercise logs have filled every journal, with a
\* topic, two insights, a breakthrough and both techniques counted.
C22_Witness ==
  /\ "s1" \in DOMAIN sessions
  /\ Len(sessions["s1"].emotion_journey) = 3
  /\ Len(sessions["s1"].user_topics) > 0
  /\ Len(sessions["s1"].key_insights) = 2
  /\ Len(sessions["s1"].breakthroughs) = 1
  /\ Len(sessions["s1"].exercises_completed) = 2
  /\ DictGet(sessions["s1"].techniques_used, "validation", 0) = 2
  /\ DictGet(sessions["s1"].techniques_used, "breathing", 0) = 1

\* The number of events of the given type in events.
CountEvents(events, event_type) ==
  Cardinality({i \in 1..Len(events) : events[i].event_type = event_type})

\* The message holds a causal connective and a belief connective.
CausalAndBelief(message) ==
  /\ AnyIn(causal_patterns, Lower(message))
  /\ AnyIn(belief_patterns, Lower(message))

\* C23: a turn update adds at most one entry to key_insights, with one
\* insight event exactly when it adds one; a message with a causal and a
\* belief connective yields the causal form; an insight whose text is
\* already recorded is not added again and raises no event, so key_insights
\* never holds a text twice.
C23_OneInsightNoDuplicates ==
  [][\A s \in SessionIds :
       IsUpdate(s) =>
         /\ Len(Post(s).key_insights) <= Len(Pre(s).key_insights) + 1
         /\ CountEvents(emitted', "memory.insight.extracted")
              = Len(Post(s).key_insights) - Len(Pre(s).key_insights)
         /\ NoDuplicates(Post(s).key_insights)
         /\ CausalAndBelief(call'.user_message) =>
              /\ \E i \in 1..Len(Post(s).key_insights) :
                   /\ Post(s).key_insights[i].form = "User feels"
                   /\ Post(s).key_insights[i].emotion = call'.emotion
                   /\ In(Post(s).key_insights[i].text, call'.user_message)
              /\ Len(Post(s).key_insights) > Len(Pre(s).key_insights) =>
                   Post(s).key_insights[Len(Post(s).key_insights)].form = "User feels"
         /\ \A i \in 1..Len(emitted') :
              emitted'[i].event_type = "memory.insight.extracted" =>
                /\ emitted'[i].data.insight \notin SeqRange(Pre(s).key_insights)
                /\ emitted'[i].data.insight
                     = Post(s).key_insights[Len(Post(s).key_insights)]]_vars

\* The message with both connectives was said a second time under the same
\* emotion: its causal insight was already recorded, and the turn added
\* nothing and raised no insight event.
C23_Witness ==
  /\ Updated
  /\ CausalAndBelief(call.user_message)
  /\ sessions["s1"].total_exchanges = 3
  /\ Len(sessions["s1"].key_insights) = 2
  /\ sessions["s1"].key_insights[1].form = "User feels"
  /\ sessions["s1"].key_insights[1].emotion = call.emotion
  /\ sessions["s1"].key_insights[2].form = "Core belief"
  /\ ~Emitted("memory.insight.extracted")

\* ------------------------------------------------ the speech turn's claims
\* The transcript connection c received for its current turn holds a known
\* recognition error.
Misheard(c) == detect_unclear_speech(handlers[c].received).form = "unclear"

\* The step's stages after the safety evaluation worked on text: the
\* exercise-feedback detection and log, the analysis and technique selection,
\* the response generation with its memory update, and the history entry.
LaterStagesOn(text) ==
  /\ "detected" \in DOMAIN call' => call'.detected = text
  /\ "user_feedback" \in DOMAIN call' => call'.user_feedback = text
  /\ "analysed" \in DOMAIN call' => call'.analysed = text
  /\ "user_message" \in DOMAIN call' => call'.user_message = text
  /\ "content" \in DOMAIN call' => call'.content = text

\* C24: a transcript with a known recognition error is corrected before all
\* other processing of its turn: the safety evaluation, the exercise-feedback
\* detection, the analysis, the technique selection, the response generation
\* and the memory update all work on the corrected transcript.
C24_AllStagesOnCorrected ==
  [][\A c \in OneConnection :
       (handlers'[c].pc # "closed" /\ Misheard(c)') =>
         /\ "evaluated" \in DOMAIN call' =>
              call'.evaluated = CorrectedOf[handlers'[c].received]
         /\ LaterStagesOn(CorrectedOf[handlers'[c].received])]_vars

\* C24 as the code has it: the safety evaluation reads the transcript as
\* received, and every later stage of the turn the corrected one.
C24_LaterStagesOnCorrected ==
  [][\A c \in OneConnection :
       (handlers'[c].pc # "closed" /\ Misheard(c)') =>
         /\ "evaluated" \in DOMAIN call' => call'.evaluated = handlers'[c].received
         /\ LaterStagesOn(Replace(Lower(handlers'[c].received), <<"e","x","e","r","c","i","s","t">>,
                                  <<"e","x","e","r","c","i","s","e">>))]_vars

\* The misheard transcript has gone through its whole turn: logged as
\* exercise feedback and handed to update_memory in its corrected form.
C24_Witness ==
  /\ call.op = "update_memory"
  /\ handlers["c1"].received = <<"T","h","e"," ","E","x","e","r","c","i","s","t"," ","w","a","s"," ","g","o","o","d">>
  /\ call.user_message = <<"t","h","e"," ","e","x","e","r","c","i","s","e"," ","w","a","s"," ","g","o","o","d">>
  /\ Len(sessions["s1"].exercises_completed) = 1
  /\ sessions["s1"].exercises_completed[1].user_feedback = <<"t","h","e"," ","e","x","e","r","c","i","s","e"," ","w","a","s"," ","g","o","o","d">>
  /\ sessions["s1"].exercises_completed[1].outcome = "helped"

\* ------------------------------------------------ the registry's claims
\* The step is an operation that names session s.
References(s) ==
  /\ call'.op \in {"get_or_create_memory", "update_memory", "log_exercise_completion"}
  /\ call'.session_id = s

\* C25: a session's memory is created by the first operation that names its
\* id and is removed or reset by clear_session alone: no turn update on this
\* or another session and no read evicts it or takes it back to the initial
\* state, and the first reference after clear_session finds a fresh memory
\* (OPENING, both counters 0, empty weights and journals).
C25_OnlyClearSessionRemoves ==
  [][\A s \in LifecycleSessions :
       /\ (s \in DOMAIN sessions /\ s \notin DOMAIN sessions')
            => (call'.op = "clear_session" /\ call'.session_id = s)
       /\ (s \in DOMAIN sessions /\ s \in DOMAIN sessions')
            => /\ sessions'[s].total_exchanges >= sessions[s].total_exchanges
               /\ IsPrefix(sessions[s].emotion_journey, sessions'[s].emotion_journey)
               /\ IsPrefix(sessions[s].exercises_completed,
                           sessions'[s].exercises_completed)
               /\ ~References(s) => sessions'[s] = sessions[s]
       /\ (s \notin DOMAIN sessions /\ s \in DOMAIN sessions')
            => /\ References(s)
               /\ sessions'[s].total_exchanges
                    = (IF call'.op = "update_memory" THEN 1 ELSE 0)
               /\ Len(sessions'[s].emotion_journey) = sessions'[s].total_exchanges
               /\ Len(sessions'[s].exercises_completed)
                    = (IF call'.op = "log_exercise_completion" THEN 1 ELSE 0)
               /\ call'.op = "get_or_create_memory" =>
                    /\ sessions'[s].phase = "opening"
                    /\ sessions'[s].exchanges_in_phase = 0
                    /\ sessions'[s].emotion_weights = << >>
                    /\ sessions'[s].topic_weights = << >>
                    /\ sessions'[s].emotion_journey = << >>
                    /\ sessions'[s].user_topics = << >>
                    /\ sessions'[s].key_insights = << >>
                    /\ sessions'[s].breakthroughs = << >>
                    /\ sessions'[s].techniques_used = << >>]_vars

\* clear_session has just removed the memory of s1, and s2 keeps its memory
\* of two turns and an exercise log.
C25_Witness ==
  /\ call = [op |-> "clear_session", session_id |-> "s1"]
  /\ DOMAIN sessions = {"s2"}
  /\ sessions["s2"].total_exchanges = 2
  /\ Len(sessions["s2"].exercises_completed) = 1

\* ------------------------------------------------ the scenario's claim
\* The latest step was a turn update with the given message and intensity,
\* under emotion anxiety.
ScenarioTurn(message, intensity) ==
  /\ Updated
  /\ call.user_message = message
  /\ call.emotion = "anxiety"
  /\ call.intensity = intensity

\* The emotion event of the latest update names previous_weight as the
\* weight it found after the decay pass.
DetectedAfter(previous_weight) ==
  \E i \in 1..Len(emitted) :
    /\ emitted[i].event_type = "memory.emotion.detected"
    /\ emitted[i].data.previous_weight = previous_weight

\* C26: from an empty session, turn 1 ("I'm really anxious about work
\* deadlines", anxiety, 0.9) leaves emotion_weights = {anxiety: 0.81},
\* 'work' and 'anxiety' in user_topics and the phase OPENING; turn 2 ("I've
\* been feeling this way since my boss changed", anxiety, 0.6) first decays
\* the weight to 0.567 and then blends it to
\* max(0.567*0.6 + 0.6*0.4, 0.6*0.8) = 0.5802.
C26_EndToEndScenario ==
  /\ (/\ ScenarioTurn(<<"I","'","m"," ","r","e","a","l","l","y"," ","a","n","x","i","o","u","s"," ","a","b","o","u","t"," ","w","o","r","k"," ","d","e","a","d","l","i","n","e","s">>, Frac(9, 10))
      /\ sessions["s1"].total_exchanges = 1)
       => /\ sessions["s1"].emotion_weights = <<[k |-> "anxiety", v |-> Frac(81, 100)]>>
          /\ {"work", "anxiety"} \subseteq SeqRange(sessions["s1"].user_topics)
          /\ sessions["s1"].phase = "opening"
  /\ (/\ ScenarioTurn(<<"I","'","v","e"," ","b","e","e","n"," ","f","e","e","l","i","n","g"," ","t","h","i","s"," ","w","a","y"," ","s","i","n","c","e"," ","m","y"," ","b","o","s","s"," ","c","h","a","n","g","e","d">>, Frac(6, 10))
      /\ sessions["s1"].total_exchanges = 2
      /\ sessions["s1"].emotion_journey[1].intensity = Frac(9, 10))
       => /\ DetectedAfter(Frac(567, 1000))
          /\ sessions["s1"].emotion_weights
               = <<[k |-> "anxiety", v |-> Frac(5802, 10000)]>>

\* The second turn of the scenario has run after the first.
C26_Witness ==
  /\ ScenarioTurn(<<"I","'","v","e"," ","b","e","e","n"," ","f","e","e","l","i","n","g"," ","t","h","i","s"," ","w","a","y"," ","s","i","n","c","e"," ","m","y"," ","b","o","s","s"," ","c","h","a","n","g","e","d">>, Frac(6, 10))
  /\ sessions["s1"].total_exchanges = 2
  /\ sessions["s1"].emotion_journey[1].intensity = Frac(9, 10)
  /\ sessions["s1"].user_topics = <<"work", "anxiety">>
  /\ DictGet(sessions["s1"].emotion_weights, "anxiety", Zero) = Frac(5802, 10000)

\* ------------------------------------------------ the event order's claim
\* The positions in events of the events of the given type.
PositionsOf(events, event_type) ==
  {i \in 1..Len(events) : events[i].event_type = event_type}

\* C27: a turn emits memory.phase.transitioned exactly when it changed the
\* phase; the event's from_phase and to_phase are the phase before and after
\* the update, its exchanges_in_previous_phase counts the exchanges spent in
\* the phase left, the current one included (at least that phase's minimum,
\* never 0); memory.state.updated is the last event of every turn update,
\* after every other event of the turn.
C27_TransitionEventAndLastEvent ==
  [][\A s \in SessionIds :
       IsUpdate(s) =>
         /\ CountEvents(emitted', "memory.phase.transitioned")
              = (IF Post(s).phase # Pre(s).phase THEN 1 ELSE 0)
         /\ \A i \in PositionsOf(emitted', "memory.phase.transitioned") :
              /\ emitted'[i].data.from_phase = Pre(s).phase
              /\ emitted'[i].data.to_phase = Post(s).phase
              /\ emitted'[i].data.exchanges_in_previous_phase
                   = Pre(s).exchanges_in_phase + 1
              /\ emitted'[i].data.exchanges_in_previous_phase
                   >= PHASE_TRANSITION_SIGNALS[Pre(s).phase].min_exchanges
              /\ emitted'[i].data.exchanges_in_previous_phase > 0
         /\ PositionsOf(emitted', "memory.state.updated") = {Len(emitted')}]_vars

\* A turn in the TECHNIQUE phase moved on to INTEGRATION and recorded a
\* breakthrough: its events are a decay, the emotion, the technique, the
\* transition and the breakthrough, and the state event after them.
C27_Witness ==
  /\ Updated
  /\ sessions["s1"].phase = "integration"
  /\ Emitted("memory.emotion.decayed")
  /\ Emitted("memory.phase.transitioned")
  /\ Emitted("memory.breakthrough.detected")
  /\ Len(emitted) >= 6
  /\ emitted[Len(emitted)].event_type = "memory.state.updated"
  /\ emitted[Len(emitted) - 1].event_type = "memory.breakthrough.detected"

\* Connection c awaits the safety evaluation of a transcript that it flags.
CrisisPending(c) ==
  /\ handlers[c].pc = "screening"
  /\ evaluate(handlers[c].received).is_crisis

C29_HandlerReceivesAfterError ==
  call.op = "unexpected_error" => handlers[call.connection].pc = "receiving"


\* C30: log_exercise_completion is not a turn: it appends exactly one record
\* to exercises_completed (with emotion_before the dominant emotion, or
\* "unknown" when emotion_weights is empty), emits one
\* memory.exercise.completed event and leaves phase, exchanges_in_phase,
\* total_exchanges, emotion_journey, both weight maps and every other journal
\* unchanged (no decay is applied).
C30_ExerciseLogIsNotATurn ==
  [][call'.op = "log_exercise_completion" =>
       LET s == call'.session_id
           before == IF Pre(s).emotion_weights = << >> THEN "unknown"
                     ELSE get_dominant_emotion(Pre(s)).emotion
           record == [exercise_type |-> call'.exercise_type,
                      outcome |-> call'.outcome,
                      user_feedback |-> call'.user_feedback,
                      emotion_before |-> before]
       IN  /\ Post(s) = [Pre(s) EXCEPT !.exercises_completed = Append(@, record)]
           /\ \A o \in DOMAIN sessions \ {s} :
                o \in DOMAIN sessions' /\ sessions'[o] = sessions[o]
           /\ Len(emitted') = 1
           /\ emitted'[1].event_type = "memory.exercise.completed"
           /\ emitted'[1].session_id = s
           /\ current_turn_number' = current_turn_number]_vars

\* An exercise was logged before any turn ("unknown") and another after two
\* turns left decayed anxiety behind a heavier relief: the second record
\* names relief, and the turn counters still count the two turns only.
C30_Witness ==
  /\ call.op = "log_exercise_completion"
  /\ "s1" \in DOMAIN sessions
  /\ Len(sessions["s1"].exercises_completed) = 2
  /\ sessions["s1"].exercises_completed[1].emotion_before = "unknown"
  /\ sessions["s1"].exercises_completed[2].emotion_before = "relief"
  /\ sessions["s1"].total_exchanges = 2
  /\ Len(sessions["s1"].emotion_journey) = 2
  /\ Len(sessions["s1"].emotion_weights) = 2

\* ---------------------------------------------------------------- C31..C40
\* C31: the end-session endpoint clears the conversation memory of the
\* session on every call, also when emitting the session-ended event or
\* updating the session in the database fails or the database is not
\* connected.
C31_EndSessionAlwaysClears ==
  [][call'.op = "end_session" => call'.session_id \notin DOMAIN sessions']_vars

\* The broadcast of event e ends in this step, by returning or by raising.
BroadcastEnds(e) ==
  /\ e \in DOMAIN admin.tasks
  /\ admin.tasks[e].pc \in {"created", "iterating"}
  /\ admin'.tasks[e].pc \in {"done", "raised"}

\* C32: every event added to the admin event store is sent to every admin
\* dashboard websocket that stays connected during the broadcast (in the
\* connection set from its start to its end, its socket open), for any
\* interleaving with other dashboards connecting or disconnecting and with
\* other broadcasts; only clients whose send fails are removed from the
\* connection set.
C32_BroadcastReachesEveryDashboard ==
  [][\A e \in AdminEvents :
       BroadcastEnds(e) =>
         /\ \A d \in admin.tasks[e].start \cap admin'.connections :
              admin'.sockets[d] = "open" => e \in admin'.delivered[d]
         /\ admin.connections \ admin'.connections
              \subseteq admin.tasks[e].disconnected]_vars

\* C33: emotion analysis makes at most 3 model calls per request: it retries
\* only after a rate-limit error (429 / RESOURCE_EXHAUSTED) and only while
\* attempts remain, returns the first successful analysis, and otherwise
\* always terminates by raising the last error (immediately for any error
\* that is not a rate-limit error); it never returns a fallback analysis.
C33_AnalyzeRetriesOnlyRateLimits ==
  call.op = "analyze" =>
    LET n == call.result.calls
        last == call.answers[n]
    IN  /\ n \in 1..3
        /\ \A k \in 1..(n - 1) :
             ~call.answers[k].ok /\ IsRateLimit(call.answers[k].error)
        /\ call.result.outcome \in {"returned", "raised"}
        /\ call.result.outcome = "returned" <=> last.ok
        /\ call.result.outcome = "raised" =>
             /\ call.result.error = last.error
             /\ n < 3 => ~IsRateLimit(last.error)

\* Two rate-limit errors (one of each wording), then a server error at the
\* third call, which would also have been followed by an analysis: three
\* calls were made and the server error was raised.
C33_Witness ==
  /\ call.op = "analyze"
  /\ call.answers[1].error = <<"4","2","9"," ","T","o","o"," ","M","a","n","y"," ","R","e","q","u","e","s","t","s">>
  /\ call.answers[2].error = <<"q","u","o","t","a",":"," ","R","E","S","O","U","R","C","E","_","E","X","H","A","U","S","T","E","D">>
  /\ call.answers[3].error = <<"5","0","3"," ","U","N","A","V","A","I","L","A","B","L","E">>
  /\ call.answers[4].ok
  /\ call.result = [outcome |-> "raised", calls |-> 3, error |-> <<"5","0","3"," ","U","N","A","V","A","I","L","A","B","L","E">>]

\* none < medium < high < critical
SeverityRank(severity) ==
  CASE severity = "none" -> 0 [] severity = "medium" -> 1
    [] severity = "high" -> 2 [] severity = "critical" -> 3

\* The indicator groups with a pattern that matches the text.
MatchingGroups(text) == {g \in {"medium", "high", "critical"} : Indicated(g, text)}

\* The highest severity among them, none when there is none.
HighestMatching(text) ==
  IF MatchingGroups(text) = {} THEN "none"
  ELSE CHOOSE g \in MatchingGroups(text) :
         \A h \in MatchingGroups(text) : SeverityRank(h) <= SeverityRank(g)

\* C34: safety evaluation reports the highest severity among the indicator
\* groups that match the text (none < medium < high < critical), escalates a
\* medium result to high when the text also contains a method phrase ("how
\* to", "ways to", ...), and sets is_crisis iff the final severity is high or
\* critical, requires_handoff iff it is critical, and a non-empty resource
\* list iff the severity is not none.
C34_SeverityIsHighestMatch ==
  call.op = "evaluate" =>
    LET highest == HighestMatching(call.text)
        method == AnyIn(method_indicators, Lower(call.text))
        r == call.result
    IN  /\ r.severity = IF highest = "medium" /\ method THEN "high" ELSE highest
        /\ r.is_crisis <=> r.severity \in {"high", "critical"}
        /\ r.requires_handoff <=> r.severity = "critical"
        /\ r.resources # << >> <=> r.severity # "none"

\* A text that matches the medium group only and asks "how to": the result
\* is high, a crisis without handoff, with resources.
C34_Witness ==
  /\ call.op = "evaluate"
  /\ call.text = <<"I"," ","f","e","e","l"," ","w","o","r","t","h","l","e","s","s"," ","h","o","w"," ","t","o">>
  /\ MatchingGroups(call.text) = {"medium"}
  /\ call.result.severity = "high"
  /\ call.result.is_crisis
  /\ ~call.result.requires_handoff
  /\ Len(call.result.resources) = 4

\* The fewest exchanges a memory in this phase can have had.
FewestExchanges(phase) ==
  CASE phase = "opening" -> 0 [] phase = "exploration" -> 1
    [] phase = "deepening" -> 3 [] phase = "technique" -> 5
    [] phase = "integration" -> 7 [] phase = "closing" -> 8

\* C35: in every reachable state of a session memory the phase bounds the
\* number of exchanges from below: EXPLORATION implies total_exchanges >= 1,
\* DEEPENING >= 3, TECHNIQUE >= 5, INTEGRATION >= 7 and CLOSING >= 8; no
\* sequence of fewer than 8 turn updates reaches CLOSING.
C35_PhaseBoundsExchanges ==
  \A s \in DOMAIN sessions :
    sessions[s].total_exchanges >= FewestExchanges(sessions[s].phase)

\* The bounds are met: a memory is in CLOSING after exactly 8 turn updates,
\* having entered INTEGRATION at the seventh.
C35_Witness ==
  /\ Updated
  /\ "s1" \in DOMAIN sessions
  /\ sessions["s1"].phase = "closing"
  /\ sessions["s1"].total_exchanges = 8
  /\ sessions["s1"].exchanges_in_phase = 0
  /\ Len(sessions["s1"].emotion_journey) = 8

\* The emotions of the latest n entries of the emotion journey of memory.
ObservedInLast(memory, n) ==
  {memory.emotion_journey[j].emotion :
     j \in Max2(1, Len(memory.emotion_journey) - n + 1)..Len(memory.emotion_journey)}

\* C36: salience always fades within a bounded number of turns (intensities
\* in [0,1]): an emotion that is not observed in 5 consecutive turn updates is
\* no longer in emotion_weights after the fifth, and a topic that is not
\* extracted in 10 consecutive turn updates is no longer in topic_weights
\* after the tenth, whatever their weight was before.  (Under SpecSalience
\* the topic work is extracted in exactly the turns whose emotion is calm.)
C36_SalienceFadesInBoundedTurns ==
  \A s \in DOMAIN sessions :
    /\ DictKeys(sessions[s].emotion_weights) \subseteq ObservedInLast(sessions[s], 5)
    /\ "work" \in DictKeys(sessions[s].topic_weights)
         => "calm" \in ObservedInLast(sessions[s], 10)

\* The first turn mentioned work while calm, at the largest intensity, and
\* exactly ten anxious turns without a topic followed: work is remembered as
\* a topic of the user, and neither work nor calm has a weight any more.
C36_Witness ==
  /\ Updated
  /\ "s1" \in DOMAIN sessions
  /\ Len(sessions["s1"].emotion_journey) = 11
  /\ sessions["s1"].emotion_journey[1].emotion = "calm"
  /\ sessions["s1"].emotion_journey[1].intensity = One
  /\ ObservedInLast(sessions["s1"], 10) = {"anxiety"}
  /\ sessions["s1"].user_topics = <<"work">>
  /\ DictKeys(sessions["s1"].topic_weights) = {}
  /\ DictKeys(sessions["s1"].emotion_weights) = {"anxiety"}

\* C37: the rendered context string lists a topic only if that topic
\* currently has an entry in topic_weights (weight >= 0.2): a topic that has
\* faded out of topic_weights is not listed among the user's topics, neither
\* plainly nor as "fading".
C37_ContextListsOnlyWeightedTopics ==
  call.op = "to_context_string" =>
    \A n \in 1..Len(call.topics) :
      call.topics[n].topic \in DictKeys(sessions[call.session_id].topic_weights)

\* The positions in the admin event store of the memory.state.updated events
\* of session s: every turn update emits exactly one.
StateUpdatesOf(s) ==
  {i \in 1..Len(admin.recent_events) :
     /\ admin.recent_events[i].event_type = "memory.state.updated"
     /\ admin.recent_events[i].session_id = s}

\* C38: within one session a correlation_id identifies one exchange: two
\* different turn updates of the same session never emit events with the
\* same correlation_id, also after the session's websocket reconnects or
\* after a turn that did not complete (crisis or failed analysis).
C38_CorrelationIdNamesOneExchange ==
  \A s \in HandlerSessions :
    \A i \in StateUpdatesOf(s), j \in StateUpdatesOf(s) :
      i # j => admin.recent_events[i].correlation_id
                 # admin.recent_events[j].correlation_id

\* The end-session endpoint has just answered "ended" for session s.
JustEnded(s) == call.op = "end_session" /\ call.status = 200 /\ call.session_id = s

\* C39: once a session has been ended through the end-session endpoint and
\* its websocket has disconnected, in either order, the registry holds no
\* memory entry for that session id.  (The step that completes the pair: the
\* endpoint answering for a session whose websocket is closed, or the
\* websocket closing right after the endpoint has answered.)
C39_EndedAndDisconnectedLeavesNoMemory ==
  [][\A c \in OneConnection :
       /\ (handlers[c].pc = "closed" /\ JustEnded(SessionOf[c])')
            => SessionOf[c] \notin DOMAIN sessions'
       /\ (JustEnded(SessionOf[c]) /\ handlers[c].pc # "closed"
             /\ handlers'[c].pc = "closed")
            => SessionOf[c] \notin DOMAIN sessions']_vars

\* C40: if a second websocket connects for a session id while an earlier
\* websocket of that id is still registered, the later disconnect of the
\* earlier websocket does not remove the registration of the live one: as
\* long as a websocket of the session is connected and being served,
\* messages sent for that session are delivered to it and never silently
\* dropped.
C40_LiveWebsocketStaysRegistered ==
  [][\A c \in OneSession :
       /\ (/\ handlers[c].pc # "closed"
           /\ handlers'[c].pc = "closed"
           /\ SessionOf[c] \in DOMAIN active_connections
           /\ active_connections[SessionOf[c]] # c)
            => active_connections' = active_connections
       /\ (/\ handlers[c].pc = "replying"
           /\ handlers'[c].pc = "receiving")
            => /\ call'.sent_to # "None"
               /\ handlers'[call'.sent_to].pc # "closed"]_vars
============================================================================
